---- MODULE Spec2Model ----
(***************************************************************************)
(* A model of the three bounded queues of the repository:                  *)
(*   SPSCLockFreeQueue  (src/spsc_lockfree_queue.hpp)                      *)
(*   LockedQueue        (src/locked_queue.hpp)                             *)
(*   DoubleBufferSPSC   (src/double_buffer_spsc.hpp)                       *)
(* and of the producer/consumer loops of src/benchmark.cpp that drive      *)
(* them.  Every atomic load, atomic store, plain slot access and mutex     *)
(* operation of the source is one step of the thread that performs it, so  *)
(* the behaviours of a specification are the interleavings of those steps. *)
(*                                                                         *)
(* The element type T is a fixed-size, trivially copyable record (TestData *)
(* of src/benchmark.cpp:76-88): an element is represented by its           *)
(* identifier, a positive integer; std::move of such a record is a copy    *)
(* and leaves the source slot as it was.                                   *)
(***************************************************************************)
EXTENDS Integers, Sequences, FiniteSets, TLC

\* ------------------------------------------------------------------ bounds
\* log2 of the ring's template parameter Size
SizeLog == 2
\* the free-running ring producer makes Size + ExtraCalls enqueue calls
ExtraCalls == 2
\* warmup_operations and num_operations of the benchmark configuration
WarmupOps == 1
NumOps == 4

\* LockedQueue: number of threads, max_size, and total number of calls
NThreads == 2
MaxSizeL == 2
MaxCallsL == 4

\* DoubleBufferSPSC: max_size, number of enqueue calls, number of swaps
MaxSizeD == 2
MaxEnqD == 3
MaxSwapsD == 3
\* the largest max_size of the batch scenario
MaxBatchD == 3

\* config.queue_size of the double-buffer benchmark
QueueSizeD == 8

\* width in bits of size_t in the instantiation of the ring's template
WordBits == 6

\* the value of a default-constructed element, T()
DefaultT == 0
\* the content of a slot while an element is being copied into it
Torn == -1

VARIABLES
  \* ---- SPSCLockFreeQueue ----
  head,            \* head_data_.head
  tail,            \* tail_data_.tail
  buffer,          \* buffer_data_.buffer
  p_pc,            \* position of the producer thread
  p_item,          \* enqueue's argument
  current_tail,    \* enqueue's local
  next_tail,       \* enqueue's local
  p_ret,           \* result of the producer's last call
  p_calls,         \* number of enqueue calls made by the free-running producer
  call_tail,       \* history: tail when the current enqueue call began
  call_buffer,     \* history: buffer when the current enqueue call began
  c_pc,            \* position of the consumer thread
  c_item,          \* dequeue's output argument
  current_head,    \* dequeue's local
  c_ret,           \* result of the consumer's last call
  e_order,         \* empty(): which operand of == is evaluated first
  e_first,         \* empty(): value of the operand loaded first
  enq_hist,        \* history: values passed to the enqueue calls that succeeded
  deq_hist,        \* history: values returned by the dequeue calls that succeeded
  sz_head,         \* size()'s local current_head, per calling thread
  sz_ret,          \* result of each thread's last size() call
  sz_seen,         \* ghost: the numbers of stored elements since size() loaded head
  \* ---- benchmark_spsc_lockfree ----
  hp_phase,        \* producer loop: "warmup", "run", "finished"
  hp_i,            \* producer loop index i
  producer_done,   \* std::atomic<bool> producer_done
  hc_phase,        \* consumer loop: "warmup", "run", "finished"
  consumed,        \* consumer's local counter
  items_consumed,  \* std::atomic<size_t> items_consumed
  \* ---- LockedQueue ----
  queue_,          \* std::queue<T> queue_
  mutex_,          \* std::mutex mutex_: the set of threads that own it
  waiting,         \* threads blocked inside condition_.wait
  l_pc,            \* position of each thread
  l_op,            \* the operation each thread is in, or was last in
  l_arg,           \* enqueue's argument, per thread
  l_item,          \* the caller's output variable of dequeue, per thread
  l_ret,           \* bool result of each thread's last call
  l_size,          \* result of each thread's last size() call
  l_calls,         \* number of calls made so far, over all threads
  l_enqs,          \* number of enqueue calls made so far
  l_accepted,      \* history: values pushed, in push order
  l_returned,      \* history: values handed out by dequeues, in pop order
  abs_queue,       \* reference: a sequential bounded FIFO queue
  exp_ret,         \* reference: bool result of each thread's operation
  exp_size,        \* reference: result of each thread's size()
  exp_out,         \* reference: output of each thread's operation
  l_seen,          \* ghost: queue_ as it was when the thread took the mutex it holds
  l_script,        \* the calls one thread makes in sequence; <<>> when any thread calls anything
  \* ---- DoubleBufferSPSC ----
  vec_data,        \* storage of buffer1_ and buffer2_
  vec_size,        \* size() of buffer1_ and buffer2_
  write_buffer_,   \* std::atomic<std::vector<T>*> write_buffer_
  read_buffer_,    \* std::atomic<std::vector<T>*> read_buffer_
  buffer_swapped_, \* std::atomic<bool> buffer_swapped_
  read_index_,     \* std::atomic<size_t> read_index_
  db_max_size_,    \* max_size_
  script_k,        \* the batch scenario's k; 0 outside the scenario
  dp_pc,           \* position of the producer thread
  dp_item,         \* enqueue's argument
  current_write_buffer, \* enqueue's local
  current_write,   \* swap_buffers' local
  current_read,    \* swap_buffers' local
  dp_ret,          \* result of the producer's last call
  h_buffer,        \* has_data's local current_read_buffer
  h_index,         \* has_data's local current_read_index
  d_enq_calls,     \* number of enqueue calls made so far
  d_swaps,         \* number of swap_buffers calls made so far
  dp_drained,      \* has_data() returned false since the last swap_buffers
  dc_pc,           \* position of the consumer thread
  dc_item,         \* dequeue's output argument
  current_read_buffer,  \* dequeue's local
  current_read_index,   \* dequeue's local
  dc_ret,          \* result of the consumer's last call
  d_deq_calls,     \* number of dequeue calls of the batch scenario
  d_accepted,      \* history: values accepted by enqueue, in order
  d_received,      \* history: values returned by dequeue, in order
  batch_of,        \* history: per value, the number of swaps before its enqueue
  ws_ret,          \* result of the consumer's last buffer_was_swapped() call
  ws_true,         \* ghost: number of buffer_was_swapped() calls that returned true
  ws_seen,         \* ghost: number of flag stores made when the flag was last read
  d_lost,          \* history: values cleared unread while the consumer was idle
  \* ---- benchmark_double_buffer ----
  cfg_warmup,      \* config.warmup_operations
  cfg_num,         \* config.num_operations
  bp_phase,        \* producer: "warmup", "run", "finished"
  bp_at,           \* producer: position within the loop body
  bp_i,            \* producer loop index i
  db_done,         \* std::atomic<bool> producer_done
  bc_phase,        \* consumer: "warmup", "run", "finished"
  bc_consumed,     \* consumer's local counter consumed
  db_items_consumed, \* std::atomic<size_t> items_consumed
  \* ---- instantiation of SPSCLockFreeQueue<T, Size> ----
  tmpl_size,       \* the template argument Size
  tmpl_state       \* "pending", then "accepted" or "rejected" by the static_assert

\* ---- groups of the variables above, used to say what a step leaves unchanged ----
ringShared == <<head, tail, buffer>>
prodVars == <<p_pc, p_item, current_tail, next_tail, p_ret, p_calls, call_tail,
              call_buffer>>
consVars == <<c_pc, c_item, current_head, c_ret, e_order, e_first>>
histVars == <<enq_hist, deq_hist>>
sizeVars == <<sz_head, sz_ret, sz_seen>>
ringVars == <<ringShared, prodVars, consVars, histVars, sizeVars>>
benchVars == <<hp_phase, hp_i, producer_done, hc_phase, consumed, items_consumed>>
lockedShared == <<queue_, mutex_, waiting>>
lockedThread == <<l_pc, l_op, l_arg, l_item, l_ret, l_size, l_calls, l_enqs>>
lockedHist == <<l_accepted, l_returned>>
lockedSeen == <<l_seen>>
lockedRef == <<abs_queue, exp_ret, exp_size, exp_out>>
lockedConf == <<l_script>>
lockedVars == <<lockedShared, lockedThread, lockedHist, lockedSeen, lockedConf,
                lockedRef>>
dbShared == <<vec_data, vec_size, write_buffer_, read_buffer_, buffer_swapped_,
              read_index_>>
dbConf == <<db_max_size_, script_k>>
dbProd == <<dp_pc, dp_item, current_write_buffer, current_write, current_read,
            dp_ret, h_buffer, h_index, d_enq_calls, d_swaps, dp_drained>>
dbCons == <<dc_pc, dc_item, current_read_buffer, current_read_index, dc_ret,
            d_deq_calls>>
dbHist == <<d_accepted, d_received, batch_of, d_lost>>
dbFlag == <<ws_ret, ws_true, ws_seen>>
dbBench == <<cfg_warmup, cfg_num, bp_phase, bp_at, bp_i, db_done, bc_phase,
             bc_consumed, db_items_consumed>>
dbVars == <<dbShared, dbConf, dbProd, dbCons, dbHist, dbFlag, dbBench>>
tmplVars == <<tmpl_size, tmpl_state>>
\* everything that is not part of the ring queue and its benchmark
notRing == <<lockedVars, dbVars, tmplVars>>
\* everything that is not part of the locked queue
notLocked == <<ringVars, benchVars, dbVars, tmplVars>>
\* everything that is not part of the double-buffer queue
notDB == <<ringVars, benchVars, lockedVars, tmplVars>>
vars == <<ringVars, benchVars, lockedVars, dbVars, tmplVars>>

\* ---- auxiliary operators on sequences, used by the histories ----
SeqRange(s) == {s[i] : i \in 1 .. Len(s)}
IsPrefix(s, t) == Len(s) <= Len(t) /\ \A i \in 1 .. Len(s) : s[i] = t[i]

\* =====================================================================
\*  SPSCLockFreeQueue
\* =====================================================================
Size == 2 ^ SizeLog
MASK == Size - 1
MaxCalls == Size + ExtraCalls

\* the number of values of a size_t of WordBits bits
WordRange == 2 ^ WordBits

\* the bitwise and of two naturals, bit by bit
RECURSIVE BitAnd(_, _)
BitAnd(a, b) ==
  IF a = 0 \/ b = 0 THEN 0
  ELSE (a % 2) * (b % 2) + 2 * BitAnd(a \div 2, b \div 2)

\* static constexpr size_t capacity()
capacity == Size - 1

\* the index after i, as enqueue and dequeue compute it: (i + 1) & MASK
NextIndex_nomask(i) == i + 1
NextIndex(i) == BitAnd(i + 1, MASK)

\* the two threads that use the queue
RingThreads == {"producer", "consumer"}

\* the threads that are inside size(), between its two loads
SizeBetweenLoads ==
  {t \in RingThreads :
     IF t = "producer" THEN p_pc = "size_load_tail" ELSE c_pc = "size_load_tail"}

\* sz_seen once the number of stored elements has become n
SeenAfter(n) ==
  [t \in RingThreads |->
     IF t \in SizeBetweenLoads THEN sz_seen[t] \cup {n} ELSE sz_seen[t]]

\* constructor: head_data_{0}, tail_data_{0}, slots default-constructed
RingInit ==
  /\ head = 0
  /\ tail = 0
  /\ buffer = [i \in 0 .. Size - 1 |-> DefaultT]
  /\ p_pc = "idle"
  /\ p_item = DefaultT
  /\ current_tail = 0
  /\ next_tail = 0
  /\ p_ret = FALSE
  /\ p_calls = 0
  /\ call_tail = 0
  /\ call_buffer = [i \in 0 .. Size - 1 |-> DefaultT]
  /\ c_pc = "idle"
  /\ c_item = DefaultT
  /\ current_head = 0
  /\ c_ret = FALSE
  /\ e_order = "none"
  /\ e_first = 0
  /\ enq_hist = <<>>
  /\ deq_hist = <<>>
  /\ sz_head = [t \in RingThreads |-> 0]
  /\ sz_ret = [t \in RingThreads |-> 0]
  /\ sz_seen = [t \in RingThreads |-> {}]

\* the locals of benchmark_spsc_lockfree and of its two thread bodies
BenchInit ==
  /\ hp_phase = "warmup"
  /\ hp_i = 0
  /\ producer_done = FALSE
  /\ hc_phase = "warmup"
  /\ consumed = 0
  /\ items_consumed = 0

\* ---- enqueue ----
\* entry of enqueue(item)
EnqBegin(item) ==
  /\ p_item' = item
  /\ p_pc' = "enq_load_tail"
  /\ call_tail' = tail
  /\ call_buffer' = buffer
  /\ UNCHANGED <<current_tail, next_tail, p_ret>>

\* current_tail = tail.load(relaxed); next_tail = (current_tail + 1) & MASK
EnqLoadTail ==
  /\ p_pc = "enq_load_tail"
  /\ current_tail' = tail
  /\ next_tail' = NextIndex(tail)
  /\ p_pc' = "enq_check_full"
  /\ UNCHANGED <<ringShared, p_item, p_ret, p_calls, call_tail, call_buffer,
                 consVars, histVars, benchVars, sizeVars, notRing>>

\* the fullness test of enqueue, on the value h loaded from head
EnqIsFull_unmasked(h) == current_tail + 1 = h
EnqIsFull_twoslots(h) == NextIndex(next_tail) = h
EnqIsFull(h) == next_tail = h

\* if (next_tail == head.load(acquire)) return false;
EnqCheckFull ==
  /\ p_pc = "enq_check_full"
  /\ IF EnqIsFull(head)
       THEN /\ p_ret' = FALSE
            /\ p_pc' = "enq_return"
       ELSE /\ p_pc' = "enq_write"
            /\ UNCHANGED p_ret
  /\ UNCHANGED <<ringShared, p_item, current_tail, next_tail, p_calls,
                 call_tail, call_buffer, consVars, histVars, benchVars, sizeVars, notRing>>

\* buffer[current_tail] = std::forward<U>(item): the copy into the slot begins
EnqWriteBegin ==
  /\ p_pc = "enq_write"
  /\ buffer' = [buffer EXCEPT ![current_tail] = Torn]
  /\ p_pc' = "enq_write_end"
  /\ UNCHANGED <<head, tail, p_item, current_tail, next_tail, p_ret, p_calls,
                 call_tail, call_buffer, consVars, histVars, benchVars, sizeVars, notRing>>

\* buffer[current_tail] = std::forward<U>(item): the copy is complete
EnqWriteEnd ==
  /\ p_pc = "enq_write_end"
  /\ buffer' = [buffer EXCEPT ![current_tail] = p_item]
  /\ p_pc' = "enq_store_tail"
  /\ UNCHANGED <<head, tail, p_item, current_tail, next_tail, p_ret, p_calls,
                 call_tail, call_buffer, consVars, histVars, benchVars, sizeVars, notRing>>

\* tail.store(next_tail, release); return true
EnqStoreTail ==
  /\ p_pc = "enq_store_tail"
  /\ tail' = next_tail
  /\ p_ret' = TRUE
  /\ enq_hist' = Append(enq_hist, p_item)
  /\ sz_seen' = SeenAfter(Len(enq_hist) + 1 - Len(deq_hist))
  /\ p_pc' = "enq_return"
  /\ UNCHANGED <<head, buffer, p_item, current_tail, next_tail, p_calls,
                 call_tail, call_buffer, consVars, deq_hist, benchVars,
                 sz_head, sz_ret, notRing>>

\* ---- dequeue ----
\* entry of dequeue(item)
DeqBegin ==
  /\ c_pc' = "deq_load_head"
  /\ UNCHANGED <<c_item, current_head, c_ret, e_order, e_first>>

\* current_head = head.load(relaxed)
DeqLoadHead ==
  /\ c_pc = "deq_load_head"
  /\ current_head' = head
  /\ c_pc' = "deq_check_empty"
  /\ UNCHANGED <<ringShared, prodVars, c_item, c_ret, e_order, e_first,
                 histVars, benchVars, sizeVars, notRing>>

\* the emptiness test of dequeue, on the value t loaded from tail
DeqIsEmpty_asfull(t) == NextIndex(current_head) = t
DeqIsEmpty_never(t) == FALSE
DeqIsEmpty(t) == current_head = t

\* if (current_head == tail.load(acquire)) return false;
DeqCheckEmpty ==
  /\ c_pc = "deq_check_empty"
  /\ IF DeqIsEmpty(tail)
       THEN /\ c_ret' = FALSE
            /\ c_pc' = "deq_return"
       ELSE /\ c_pc' = "deq_read"
            /\ UNCHANGED c_ret
  /\ UNCHANGED <<ringShared, prodVars, c_item, current_head, e_order, e_first,
                 histVars, benchVars, sizeVars, notRing>>

\* item = std::move(buffer[current_head])
DeqRead ==
  /\ c_pc = "deq_read"
  /\ c_item' = buffer[current_head]
  /\ c_pc' = "deq_store_head"
  /\ UNCHANGED <<ringShared, prodVars, current_head, c_ret, e_order, e_first,
                 histVars, benchVars, sizeVars, notRing>>

\* head.store((current_head + 1) & MASK, release); return true
DeqStoreHead ==
  /\ c_pc = "deq_store_head"
  /\ head' = NextIndex(current_head)
  /\ c_ret' = TRUE
  /\ deq_hist' = Append(deq_hist, c_item)
  /\ sz_seen' = SeenAfter(Len(enq_hist) - Len(deq_hist) - 1)
  /\ c_pc' = "deq_return"
  /\ UNCHANGED <<tail, buffer, prodVars, c_item, current_head, e_order,
                 e_first, enq_hist, benchVars, sz_head, sz_ret, notRing>>

\* ---- empty ----
\* return head.load(acquire) == tail.load(acquire);
\* the two operands of == are evaluated in either order
EmptyLoadFirst ==
  /\ c_pc = "empty_first"
  /\ \E o \in {"head_first", "tail_first"} :
       /\ e_order' = o
       /\ e_first' = IF o = "head_first" THEN head ELSE tail
  /\ c_pc' = "empty_second"
  /\ UNCHANGED <<ringShared, prodVars, c_item, current_head, c_ret, histVars,
                 benchVars, sizeVars, notRing>>

EmptyLoadSecond ==
  /\ c_pc = "empty_second"
  /\ c_ret' = IF e_order = "head_first" THEN e_first = tail ELSE head = e_first
  /\ c_pc' = "empty_return"
  /\ UNCHANGED <<ringShared, prodVars, c_item, current_head, e_order, e_first,
                 histVars, benchVars, sizeVars, notRing>>

\* ---- full ----
\* full(), called by the producer thread:
\* current_tail = tail.load(acquire); next_tail = (current_tail + 1) & MASK
FullLoadTail ==
  /\ p_pc = "full_load_tail"
  /\ current_tail' = tail
  /\ next_tail' = NextIndex(tail)
  /\ p_pc' = "full_load_head"
  /\ UNCHANGED <<ringShared, p_item, p_ret, p_calls, call_tail, call_buffer,
                 consVars, histVars, benchVars, sizeVars, notRing>>

\* the test of full(), on the value h loaded from head
FullIsFull(h) == next_tail = h

\* return next_tail == head.load(acquire);
FullLoadHead ==
  /\ p_pc = "full_load_head"
  /\ p_ret' = FullIsFull(head)
  /\ p_pc' = "full_return"
  /\ UNCHANGED <<ringShared, p_item, current_tail, next_tail, p_calls,
                 call_tail, call_buffer, consVars, histVars, benchVars, sizeVars, notRing>>

\* ---- size ----
\* (current_tail - current_head) & MASK, the difference taken in size_t
SizeOf_nomask(h, t) == (t - h + WordRange) % WordRange
SizeOf(h, t) == BitAnd((t - h + WordRange) % WordRange, MASK)

\* size(), called by the producer thread:
\* current_head = head.load(acquire)
SizeLoadHeadP ==
  /\ p_pc = "size_load_head"
  /\ sz_head' = [sz_head EXCEPT !["producer"] = head]
  /\ sz_seen' = [sz_seen EXCEPT !["producer"] = {Len(enq_hist) - Len(deq_hist)}]
  /\ p_pc' = "size_load_tail"
  /\ UNCHANGED <<ringShared, p_item, current_tail, next_tail, p_ret, p_calls,
                 call_tail, call_buffer, consVars, histVars, benchVars,
                 sz_ret, notRing>>

\* current_tail = tail.load(acquire); return (current_tail - current_head) & MASK;
SizeLoadTailP ==
  /\ p_pc = "size_load_tail"
  /\ sz_ret' = [sz_ret EXCEPT !["producer"] = SizeOf(sz_head["producer"], tail)]
  /\ p_pc' = "size_return"
  /\ UNCHANGED <<ringShared, p_item, current_tail, next_tail, p_ret, p_calls,
                 call_tail, call_buffer, consVars, histVars, benchVars,
                 sz_head, sz_seen, notRing>>

\* size(), called by the consumer thread
SizeLoadHeadC ==
  /\ c_pc = "size_load_head"
  /\ sz_head' = [sz_head EXCEPT !["consumer"] = head]
  /\ sz_seen' = [sz_seen EXCEPT !["consumer"] = {Len(enq_hist) - Len(deq_hist)}]
  /\ c_pc' = "size_load_tail"
  /\ UNCHANGED <<ringShared, prodVars, c_item, current_head, c_ret, e_order,
                 e_first, histVars, benchVars, sz_ret, notRing>>

SizeLoadTailC ==
  /\ c_pc = "size_load_tail"
  /\ sz_ret' = [sz_ret EXCEPT !["consumer"] = SizeOf(sz_head["consumer"], tail)]
  /\ c_pc' = "size_return"
  /\ UNCHANGED <<ringShared, prodVars, c_item, current_head, c_ret, e_order,
                 e_first, histVars, benchVars, sz_head, sz_seen, notRing>>

\* ---- a free-running producer and a free-running consumer ----
\* the producer calls enqueue, each time with a value it has not passed before
RingCallEnqueue ==
  /\ p_pc = "idle"
  /\ p_calls < MaxCalls
  /\ p_calls' = p_calls + 1
  /\ EnqBegin(p_calls + 1)
  /\ UNCHANGED <<ringShared, consVars, histVars, benchVars, sizeVars, notRing>>

RingReturnEnqueue ==
  /\ p_pc = "enq_return"
  /\ p_pc' = "idle"
  /\ UNCHANGED <<ringShared, p_item, current_tail, next_tail, p_ret, p_calls,
                 call_tail, call_buffer, consVars, histVars, benchVars, sizeVars, notRing>>

RingCallFull ==
  /\ p_pc = "idle"
  /\ p_pc' = "full_load_tail"
  /\ UNCHANGED <<ringShared, p_item, current_tail, next_tail, p_ret, p_calls,
                 call_tail, call_buffer, consVars, histVars, benchVars, sizeVars, notRing>>

RingReturnFull ==
  /\ p_pc = "full_return"
  /\ p_pc' = "idle"
  /\ UNCHANGED <<ringShared, p_item, current_tail, next_tail, p_ret, p_calls,
                 call_tail, call_buffer, consVars, histVars, benchVars, sizeVars, notRing>>

RingCallDequeue ==
  /\ c_pc = "idle"
  /\ DeqBegin
  /\ UNCHANGED <<ringShared, prodVars, histVars, benchVars, sizeVars, notRing>>

RingCallEmpty ==
  /\ c_pc = "idle"
  /\ c_pc' = "empty_first"
  /\ UNCHANGED <<ringShared, prodVars, c_item, current_head, c_ret, e_order,
                 e_first, histVars, benchVars, sizeVars, notRing>>

RingReturnConsumer ==
  /\ c_pc \in {"deq_return", "empty_return"}
  /\ c_pc' = "idle"
  /\ UNCHANGED <<ringShared, prodVars, c_item, current_head, c_ret, e_order,
                 e_first, histVars, benchVars, sizeVars, notRing>>

RingCallSizeP ==
  /\ p_pc = "idle"
  /\ p_pc' = "size_load_head"
  /\ UNCHANGED <<ringShared, p_item, current_tail, next_tail, p_ret, p_calls,
                 call_tail, call_buffer, consVars, histVars, benchVars,
                 sizeVars, notRing>>

\* size() returns to its caller and its local goes out of scope
RingReturnSizeP ==
  /\ p_pc = "size_return"
  /\ p_pc' = "idle"
  /\ sz_head' = [sz_head EXCEPT !["producer"] = 0]
  /\ sz_seen' = [sz_seen EXCEPT !["producer"] = {}]
  /\ UNCHANGED <<ringShared, p_item, current_tail, next_tail, p_ret, p_calls,
                 call_tail, call_buffer, consVars, histVars, benchVars,
                 sz_ret, notRing>>

RingCallSizeC ==
  /\ c_pc = "idle"
  /\ c_pc' = "size_load_head"
  /\ UNCHANGED <<ringShared, prodVars, c_item, current_head, c_ret, e_order,
                 e_first, histVars, benchVars, sizeVars, notRing>>

\* size() returns to its caller and its local goes out of scope
RingReturnSizeC ==
  /\ c_pc = "size_return"
  /\ c_pc' = "idle"
  /\ sz_head' = [sz_head EXCEPT !["consumer"] = 0]
  /\ sz_seen' = [sz_seen EXCEPT !["consumer"] = {}]
  /\ UNCHANGED <<ringShared, prodVars, c_item, current_head, c_ret, e_order,
                 e_first, histVars, benchVars, sz_ret, notRing>>

RingProducer ==
  \/ RingCallEnqueue
  \/ EnqLoadTail
  \/ EnqCheckFull
  \/ EnqWriteBegin
  \/ EnqWriteEnd
  \/ EnqStoreTail
  \/ RingReturnEnqueue
  \/ RingCallFull
  \/ FullLoadTail
  \/ FullLoadHead
  \/ RingReturnFull

RingConsumer ==
  \/ RingCallDequeue
  \/ DeqLoadHead
  \/ DeqCheckEmpty
  \/ DeqRead
  \/ DeqStoreHead
  \/ RingCallEmpty
  \/ EmptyLoadFirst
  \/ EmptyLoadSecond
  \/ RingReturnConsumer

RingNext == RingProducer \/ RingConsumer

\* size() as called by the producer thread and by the consumer thread
RingSizeCalls ==
  \/ RingCallSizeP
  \/ SizeLoadHeadP
  \/ SizeLoadTailP
  \/ RingReturnSizeP
  \/ RingCallSizeC
  \/ SizeLoadHeadC
  \/ SizeLoadTailC
  \/ RingReturnSizeC

\* free-running threads that call enqueue, dequeue and size()
RingSizeNext ==
  \/ RingCallEnqueue
  \/ EnqLoadTail
  \/ EnqCheckFull
  \/ EnqWriteBegin
  \/ EnqWriteEnd
  \/ EnqStoreTail
  \/ RingReturnEnqueue
  \/ RingCallDequeue
  \/ DeqLoadHead
  \/ DeqCheckEmpty
  \/ DeqRead
  \/ DeqStoreHead
  \/ RingReturnConsumer
  \/ RingSizeCalls

\* =====================================================================
\*  benchmark_spsc_lockfree: the producer and consumer thread bodies
\* =====================================================================
\* An element of the benchmark is TestData(i, timestamp); the model numbers
\* the elements consecutively over the warmup loop and the measured loop.

\* producer, warmup loop: for (i = 0; i < warmup_operations; ++i)
BenchProdWarmup ==
  /\ hp_phase = "warmup"
  /\ p_pc = "idle"
  /\ IF hp_i < WarmupOps
       THEN /\ EnqBegin(hp_i + 1)
            /\ UNCHANGED <<hp_phase, hp_i>>
       ELSE /\ hp_phase' = "run"
            /\ hp_i' = 0
            /\ UNCHANGED <<p_pc, p_item, current_tail, next_tail, p_ret,
                           call_tail, call_buffer>>
  /\ UNCHANGED <<ringShared, p_calls, consVars, histVars, producer_done,
                 hc_phase, consumed, items_consumed>>
  /\ UNCHANGED <<sizeVars, notRing>>

\* producer, measured loop: for (i = 0; i < num_operations; ++i), then
\* producer_done.store(true)
BenchProdRun ==
  /\ hp_phase = "run"
  /\ p_pc = "idle"
  /\ IF hp_i < NumOps
       THEN /\ EnqBegin(WarmupOps + hp_i + 1)
            /\ UNCHANGED <<hp_phase, hp_i, producer_done>>
       ELSE /\ producer_done' = TRUE
            /\ hp_phase' = "finished"
            /\ UNCHANGED <<hp_i, p_pc, p_item, current_tail, next_tail, p_ret,
                           call_tail, call_buffer>>
  /\ UNCHANGED <<ringShared, p_calls, consVars, histVars, hc_phase, consumed,
                 items_consumed>>
  /\ UNCHANGED <<sizeVars, notRing>>

\* while (!queue.enqueue(data)) yield();  then the next iteration
BenchProdReturn ==
  /\ p_pc = "enq_return"
  /\ IF p_ret
       THEN /\ hp_i' = hp_i + 1
            /\ p_pc' = "idle"
            /\ UNCHANGED <<p_item, current_tail, next_tail, p_ret, call_tail,
                           call_buffer>>
       ELSE /\ EnqBegin(p_item)
            /\ UNCHANGED hp_i
  /\ UNCHANGED <<ringShared, p_calls, consVars, histVars, hp_phase,
                 producer_done, hc_phase, consumed, items_consumed>>
  /\ UNCHANGED <<sizeVars, notRing>>

\* consumer, warmup loop: while (consumed < warmup_operations); consumed = 0
BenchConsWarmup ==
  /\ hc_phase = "warmup"
  /\ c_pc = "idle"
  /\ IF consumed < WarmupOps
       THEN /\ DeqBegin
            /\ UNCHANGED <<hc_phase, consumed>>
       ELSE /\ consumed' = 0
            /\ hc_phase' = "run"
            /\ UNCHANGED consVars
  /\ UNCHANGED <<ringShared, prodVars, histVars, hp_phase, hp_i, producer_done,
                 items_consumed>>
  /\ UNCHANGED <<sizeVars, notRing>>

\* consumer, measured loop: while (!producer_done.load() || !queue.empty())
\* left operand of ||: the load of producer_done
BenchConsRun ==
  /\ hc_phase = "run"
  /\ c_pc = "idle"
  /\ IF ~producer_done
       THEN DeqBegin
       ELSE /\ c_pc' = "empty_first"
            /\ UNCHANGED <<c_item, current_head, c_ret, e_order, e_first>>
  /\ UNCHANGED <<ringShared, prodVars, histVars, benchVars, sizeVars, notRing>>

\* right operand of ||: the result of queue.empty(); leaving the loop is
\* followed by items_consumed.store(consumed)
BenchConsEmptyReturn ==
  /\ c_pc = "empty_return"
  /\ IF ~c_ret
       THEN /\ DeqBegin
            /\ UNCHANGED <<hc_phase, items_consumed>>
       ELSE /\ items_consumed' = consumed
            /\ hc_phase' = "finished"
            /\ c_pc' = "idle"
            /\ UNCHANGED <<c_item, current_head, c_ret, e_order, e_first>>
  /\ UNCHANGED <<ringShared, prodVars, histVars, hp_phase, hp_i, producer_done,
                 consumed>>
  /\ UNCHANGED <<sizeVars, notRing>>

\* if (queue.dequeue(data)) consumed++;
BenchConsDeqReturn ==
  /\ c_pc = "deq_return"
  /\ consumed' = IF c_ret THEN consumed + 1 ELSE consumed
  /\ c_pc' = "idle"
  /\ UNCHANGED <<ringShared, prodVars, c_item, current_head, c_ret, e_order,
                 e_first, histVars, hp_phase, hp_i, producer_done, hc_phase,
                 items_consumed>>
  /\ UNCHANGED <<sizeVars, notRing>>

BenchProducer ==
  \/ BenchProdWarmup
  \/ BenchProdRun
  \/ BenchProdReturn
  \/ EnqLoadTail
  \/ EnqCheckFull
  \/ EnqWriteBegin
  \/ EnqWriteEnd
  \/ EnqStoreTail

BenchConsumer ==
  \/ BenchConsWarmup
  \/ BenchConsRun
  \/ BenchConsEmptyReturn
  \/ BenchConsDeqReturn
  \/ DeqLoadHead
  \/ DeqCheckEmpty
  \/ DeqRead
  \/ DeqStoreHead
  \/ EmptyLoadFirst
  \/ EmptyLoadSecond

RingBenchNext == BenchProducer \/ BenchConsumer

\* =====================================================================
\*  LockedQueue
\* =====================================================================
Threads == 1 .. NThreads

\* explicit LockedQueue(size_t max_size)
max_size_ == MaxSizeL

LockedInitWith(script) ==
  /\ queue_ = <<>>
  /\ mutex_ = {}
  /\ waiting = {}
  /\ l_pc = [t \in Threads |-> "idle"]
  /\ l_op = [t \in Threads |-> "none"]
  /\ l_arg = [t \in Threads |-> DefaultT]
  /\ l_item = [t \in Threads |-> DefaultT]
  /\ l_ret = [t \in Threads |-> FALSE]
  /\ l_size = [t \in Threads |-> 0]
  /\ l_calls = 0
  /\ l_enqs = 0
  /\ l_accepted = <<>>
  /\ l_returned = <<>>
  /\ abs_queue = <<>>
  /\ exp_ret = [t \in Threads |-> FALSE]
  /\ exp_size = [t \in Threads |-> 0]
  /\ exp_out = [t \in Threads |-> DefaultT]
  /\ l_seen = [t \in Threads |-> <<>>]
  /\ l_script = script

\* the queue with any thread calling any operation
LockedInit == LockedInitWith(<<>>)

\* ---- the reference: the same operations on a sequential bounded FIFO queue ----
\* the reference applied for thread t, at the moment t takes the mutex
RefApply(t) ==
  LET op == l_op[t] IN
  CASE op = "enqueue" ->
         IF Len(abs_queue) < MaxSizeL
           THEN /\ abs_queue' = Append(abs_queue, l_arg[t])
                /\ exp_ret' = [exp_ret EXCEPT ![t] = TRUE]
                /\ UNCHANGED <<exp_size, exp_out>>
           ELSE /\ exp_ret' = [exp_ret EXCEPT ![t] = FALSE]
                /\ UNCHANGED <<abs_queue, exp_size, exp_out>>
    [] op = "dequeue" ->
         IF abs_queue # <<>>
           THEN /\ abs_queue' = Tail(abs_queue)
                /\ exp_ret' = [exp_ret EXCEPT ![t] = TRUE]
                /\ exp_out' = [exp_out EXCEPT ![t] = Head(abs_queue)]
                /\ UNCHANGED exp_size
           ELSE /\ exp_ret' = [exp_ret EXCEPT ![t] = FALSE]
                /\ exp_out' = [exp_out EXCEPT ![t] = l_item[t]]
                /\ UNCHANGED <<abs_queue, exp_size>>
    [] op = "dequeue_blocking" ->
         \* enabled on a non-empty queue only: on an empty one it goes on waiting
         IF abs_queue # <<>>
           THEN /\ abs_queue' = Tail(abs_queue)
                /\ exp_ret' = [exp_ret EXCEPT ![t] = TRUE]
                /\ exp_out' = [exp_out EXCEPT ![t] = Head(abs_queue)]
                /\ UNCHANGED exp_size
           ELSE UNCHANGED <<abs_queue, exp_ret, exp_size, exp_out>>
    [] op = "empty" ->
         /\ exp_ret' = [exp_ret EXCEPT ![t] = (abs_queue = <<>>)]
         /\ UNCHANGED <<abs_queue, exp_size, exp_out>>
    [] op = "full" ->
         /\ exp_ret' = [exp_ret EXCEPT ![t] = (Len(abs_queue) = MaxSizeL)]
         /\ UNCHANGED <<abs_queue, exp_size, exp_out>>
    [] op = "size" ->
         /\ exp_size' = [exp_size EXCEPT ![t] = Len(abs_queue)]
         /\ UNCHANGED <<abs_queue, exp_ret, exp_out>>

\* ---- the mutex and the condition variable ----
\* whether mutex_.lock() can return
MutexFree_nolock == TRUE
MutexFree == mutex_ = {}

\* std::lock_guard / std::unique_lock constructor: mutex_.lock()
LLock(t) ==
  /\ l_pc[t] = "lock"
  /\ MutexFree
  /\ mutex_' = mutex_ \cup {t}
  /\ l_pc' = [l_pc EXCEPT ![t] = "body"]
  /\ RefApply(t)
  /\ l_seen' = [l_seen EXCEPT ![t] = queue_]
  /\ UNCHANGED <<queue_, waiting, l_op, l_arg, l_item, l_ret, l_size, l_calls, l_enqs,
                 lockedHist, lockedConf, notLocked>>

\* destructor of the guard at the end of the operation: mutex_.unlock(); return
LUnlock(t) ==
  /\ l_pc[t] = "unlock"
  /\ mutex_' = mutex_ \ {t}
  /\ l_pc' = [l_pc EXCEPT ![t] = "idle"]
  /\ l_seen' = [l_seen EXCEPT ![t] = <<>>]
  /\ UNCHANGED <<queue_, waiting, l_op, l_arg, l_item, l_ret, l_size, l_calls, l_enqs,
                 lockedHist, lockedRef, lockedConf, notLocked>>

\* ---- enqueue ----
\* queue_.size() >= max_size_
LQFull_off(q) == Len(q) > max_size_
LQFull(q) == Len(q) >= max_size_

\* if (queue_.size() >= max_size_) return false;
LEnqCheck(t) ==
  /\ l_pc[t] = "body"
  /\ l_op[t] = "enqueue"
  /\ IF LQFull(queue_)
       THEN /\ l_ret' = [l_ret EXCEPT ![t] = FALSE]
            /\ l_pc' = [l_pc EXCEPT ![t] = "unlock"]
       ELSE /\ l_pc' = [l_pc EXCEPT ![t] = "enq_push"]
            /\ UNCHANGED l_ret
  /\ UNCHANGED <<l_size, lockedShared, l_op, l_arg, l_item, l_calls, l_enqs,
                 lockedHist, lockedRef, lockedSeen, lockedConf, notLocked>>

\* queue_.push(std::forward<U>(item))
LEnqPush(t) ==
  /\ l_pc[t] = "enq_push"
  /\ queue_' = Append(queue_, l_arg[t])
  /\ l_accepted' = Append(l_accepted, l_arg[t])
  /\ l_pc' = [l_pc EXCEPT ![t] = "enq_notify"]
  /\ UNCHANGED <<mutex_, waiting, l_op, l_arg, l_item, l_ret, l_size, l_calls, l_enqs,
                 l_returned, lockedRef, lockedSeen, lockedConf, notLocked>>

\* condition_.notify_one(); return true: one of the waiting threads, if there
\* is one, leaves the wait and goes for the mutex
\* the threads among which condition_.notify_one() wakes one: those blocked
\* in condition_.wait
LNotifiable_none(ws) == {}
LNotifiable(ws) == ws

LEnqNotify(t) ==
  /\ l_pc[t] = "enq_notify"
  /\ IF LNotifiable(waiting) = {}
       THEN /\ l_pc' = [l_pc EXCEPT ![t] = "unlock"]
            /\ UNCHANGED waiting
       ELSE \E w \in LNotifiable(waiting) :
              /\ waiting' = waiting \ {w}
              /\ l_pc' = [l_pc EXCEPT ![t] = "unlock", ![w] = "relock"]
  /\ l_ret' = [l_ret EXCEPT ![t] = TRUE]
  /\ UNCHANGED <<l_size, queue_, mutex_, l_op, l_arg, l_item, l_calls, l_enqs,
                 lockedHist, lockedRef, lockedSeen, lockedConf, notLocked>>

\* ---- dequeue and dequeue_blocking ----
\* queue_.pop()
PopFront_keep(q) == q
PopFront(q) == Tail(q)

\* dequeue: if (queue_.empty()) return false;
LDeqCheck(t) ==
  /\ l_pc[t] = "body"
  /\ l_op[t] = "dequeue"
  /\ IF queue_ = <<>>
       THEN /\ l_ret' = [l_ret EXCEPT ![t] = FALSE]
            /\ l_pc' = [l_pc EXCEPT ![t] = "unlock"]
       ELSE /\ l_pc' = [l_pc EXCEPT ![t] = "front"]
            /\ UNCHANGED l_ret
  /\ UNCHANGED <<l_size, lockedShared, l_op, l_arg, l_item, l_calls, l_enqs,
                 lockedHist, lockedRef, lockedSeen, lockedConf, notLocked>>

\* dequeue_blocking: while (queue_.empty()) condition_.wait(lock);
\* wait releases the mutex and blocks the thread, in one step
LBlkCheck(t) ==
  /\ l_pc[t] = "body"
  /\ l_op[t] = "dequeue_blocking"
  /\ IF queue_ = <<>>
       THEN /\ mutex_' = mutex_ \ {t}
            /\ waiting' = waiting \cup {t}
            /\ l_pc' = [l_pc EXCEPT ![t] = "waiting"]
            /\ l_seen' = [l_seen EXCEPT ![t] = <<>>]
       ELSE /\ l_pc' = [l_pc EXCEPT ![t] = "front"]
            /\ UNCHANGED <<mutex_, waiting, l_seen>>
  /\ UNCHANGED <<queue_, l_op, l_arg, l_item, l_ret, l_size, l_calls, l_enqs,
                 lockedHist, lockedRef, lockedConf, notLocked>>

\* a spurious wakeup of condition_.wait
LSpuriousWakeup(t) ==
  /\ l_pc[t] = "waiting"
  /\ t \in waiting
  /\ waiting' = waiting \ {t}
  /\ l_pc' = [l_pc EXCEPT ![t] = "relock"]
  /\ UNCHANGED <<queue_, mutex_, l_op, l_arg, l_item, l_ret, l_size, l_calls, l_enqs,
                 lockedHist, lockedRef, lockedSeen, lockedConf, notLocked>>

\* where dequeue_blocking goes on after condition_.wait has returned: wait is
\* the body of a while loop, so back to the test of queue_.empty()
LAfterWait_notest == "front"
LAfterWait == "body"

\* condition_.wait takes the mutex again before it returns to the loop test
LWaitRelock(t) ==
  /\ l_pc[t] = "relock"
  /\ MutexFree
  /\ mutex_' = mutex_ \cup {t}
  /\ l_pc' = [l_pc EXCEPT ![t] = LAfterWait]
  /\ RefApply(t)
  /\ l_seen' = [l_seen EXCEPT ![t] = queue_]
  /\ UNCHANGED <<queue_, waiting, l_op, l_arg, l_item, l_ret, l_size, l_calls, l_enqs,
                 lockedHist, lockedConf, notLocked>>

\* item = std::move(queue_.front())
LFront(t) ==
  /\ l_pc[t] = "front"
  /\ l_item' = [l_item EXCEPT ![t] = IF queue_ = <<>> THEN DefaultT ELSE Head(queue_)]
  /\ l_pc' = [l_pc EXCEPT ![t] = "pop"]
  /\ UNCHANGED <<lockedShared, l_op, l_arg, l_ret, l_size, l_calls, l_enqs, lockedHist,
                 lockedRef, lockedSeen, lockedConf, notLocked>>

\* queue_.pop(); return (true)
LPop(t) ==
  /\ l_pc[t] = "pop"
  /\ queue_' = IF queue_ = <<>> THEN <<>> ELSE PopFront(queue_)
  /\ l_returned' = Append(l_returned, l_item[t])
  /\ l_ret' = [l_ret EXCEPT ![t] = TRUE]
  /\ l_pc' = [l_pc EXCEPT ![t] = "unlock"]
  /\ UNCHANGED <<l_size, mutex_, waiting, l_op, l_arg, l_item, l_calls, l_enqs,
                 l_accepted, lockedRef, lockedSeen, lockedConf, notLocked>>

\* ---- empty, full, size ----
LObserve(t) ==
  /\ l_pc[t] = "body"
  /\ l_op[t] \in {"empty", "full", "size"}
  /\ IF l_op[t] = "size"
       THEN /\ l_size' = [l_size EXCEPT ![t] = Len(queue_)]
            /\ UNCHANGED l_ret
       ELSE /\ l_ret' = [l_ret EXCEPT ![t] =
                          IF l_op[t] = "empty" THEN queue_ = <<>> ELSE LQFull(queue_)]
            /\ UNCHANGED l_size
  /\ l_pc' = [l_pc EXCEPT ![t] = "unlock"]
  /\ UNCHANGED <<lockedShared, l_op, l_arg, l_item, l_calls, l_enqs,
                 lockedHist, lockedRef, lockedSeen, lockedConf, notLocked>>

\* ---- the callers: any thread calls any operation ----
LCallEnqueue(t) ==
  /\ l_script = <<>>
  /\ l_pc[t] = "idle"
  /\ l_calls < MaxCallsL
  /\ l_calls' = l_calls + 1
  /\ l_enqs' = l_enqs + 1
  /\ l_op' = [l_op EXCEPT ![t] = "enqueue"]
  /\ l_arg' = [l_arg EXCEPT ![t] = l_enqs + 1]
  /\ l_pc' = [l_pc EXCEPT ![t] = "lock"]
  /\ UNCHANGED <<lockedShared, l_item, l_ret, l_size, lockedHist, lockedRef, lockedSeen, lockedConf, notLocked>>

LCallOther(t) ==
  /\ l_script = <<>>
  /\ l_pc[t] = "idle"
  /\ l_calls < MaxCallsL
  /\ l_calls' = l_calls + 1
  /\ \E op \in {"dequeue", "dequeue_blocking", "empty", "full", "size"} :
       l_op' = [l_op EXCEPT ![t] = op]
  /\ l_pc' = [l_pc EXCEPT ![t] = "lock"]
  /\ UNCHANGED <<lockedShared, l_arg, l_item, l_ret, l_size, l_enqs, lockedHist,
                 lockedRef, lockedSeen, lockedConf, notLocked>>

\* ---- given sequences of calls, each call made by the thread it names ----
LCall(o, a, t) == [op |-> o, arg |-> a, thr |-> t]

\* enqueue(A), enqueue(B), enqueue(C), dequeue, enqueue(C), dequeue, dequeue,
\* dequeue, by one thread; A, B, C are the elements 1, 2, 3
LScenario ==
  << LCall("enqueue", 1, 1), LCall("enqueue", 2, 1), LCall("enqueue", 3, 1),
     LCall("dequeue", 0, 1), LCall("enqueue", 3, 1), LCall("dequeue", 0, 1),
     LCall("dequeue", 0, 1), LCall("dequeue", 0, 1) >>

\* max_size_ + 1 enqueue calls, handed out to the threads in every way
LFillScripts ==
  { [i \in 1 .. max_size_ + 1 |-> LCall("enqueue", i, f[i])] :
      f \in [1 .. max_size_ + 1 -> Threads] }

\* the sequences of calls; the scenario is one for max_size = 2
LScripts == LFillScripts \cup (IF max_size_ = 2 THEN {LScenario} ELSE {})

\* the next call of l_script is made by its thread, once that thread is idle
LScriptCall(t) ==
  /\ l_pc[t] = "idle"
  /\ l_calls < Len(l_script)
  /\ l_script[l_calls + 1].thr = t
  /\ l_calls' = l_calls + 1
  /\ l_op' = [l_op EXCEPT ![t] = l_script[l_calls + 1].op]
  /\ IF l_script[l_calls + 1].op = "enqueue"
       THEN /\ l_enqs' = l_enqs + 1
            /\ l_arg' = [l_arg EXCEPT ![t] = l_script[l_calls + 1].arg]
       ELSE UNCHANGED <<l_enqs, l_arg>>
  /\ l_pc' = [l_pc EXCEPT ![t] = "lock"]
  /\ UNCHANGED <<lockedShared, l_item, l_ret, l_size, lockedHist, lockedRef, lockedSeen,
                 lockedConf, notLocked>>

LockedNext ==
  \/ \E t \in Threads : LCallEnqueue(t)
  \/ \E t \in Threads : LCallOther(t)
  \/ \E t \in Threads : LLock(t)
  \/ \E t \in Threads : LUnlock(t)
  \/ \E t \in Threads : LEnqCheck(t)
  \/ \E t \in Threads : LEnqPush(t)
  \/ \E t \in Threads : LEnqNotify(t)
  \/ \E t \in Threads : LDeqCheck(t)
  \/ \E t \in Threads : LBlkCheck(t)
  \/ \E t \in Threads : LSpuriousWakeup(t)
  \/ \E t \in Threads : LWaitRelock(t)
  \/ \E t \in Threads : LFront(t)
  \/ \E t \in Threads : LPop(t)
  \/ \E t \in Threads : LObserve(t)

\* the steps thread t takes when it is scheduled: all but the calls, which are
\* up to the caller, and the spurious wakeups, which need not happen
LRun(t) ==
  \/ LLock(t)
  \/ LUnlock(t)
  \/ LEnqCheck(t)
  \/ LEnqPush(t)
  \/ LEnqNotify(t)
  \/ LDeqCheck(t)
  \/ LBlkCheck(t)
  \/ LWaitRelock(t)
  \/ LFront(t)
  \/ LPop(t)
  \/ LObserve(t)

LockedScriptNext ==
  \/ LockedNext
  \/ \E t \in Threads : LScriptCall(t)

\* =====================================================================
\*  DoubleBufferSPSC
\* =====================================================================
\* buffer1_ and buffer2_ are vectors 1 and 2.  A vector is its storage
\* (vec_data, max_size slots reserved by the constructor and never
\* reallocated, as no push_back happens at size max_size) and its size
\* (vec_size).
Buffers == {1, 2}

\* the number of storage slots the model keeps per vector
MaxOf(S) == CHOOSE n \in S : \A k \in S : k <= n
VecSlots == MaxOf({MaxSizeD, MaxBatchD, QueueSizeD})

\* the elements vector b holds
Live(b) == {vec_data[b][i] : i \in 1 .. vec_size[b]}

\* constructor: both vectors empty, write_buffer_ = &buffer1_,
\* read_buffer_ = &buffer2_, buffer_swapped_{false}, read_index_{0}
DBInitConf(m, k, w, n) ==
  /\ vec_data = [b \in Buffers |-> [i \in 1 .. VecSlots |-> DefaultT]]
  /\ vec_size = [b \in Buffers |-> 0]
  /\ write_buffer_ = 1
  /\ read_buffer_ = 2
  /\ buffer_swapped_ = FALSE
  /\ read_index_ = 0
  /\ db_max_size_ = m
  /\ script_k = k
  /\ dp_pc = "idle"
  /\ dp_item = DefaultT
  /\ current_write_buffer = 1
  /\ current_write = 1
  /\ current_read = 2
  /\ dp_ret = FALSE
  /\ h_buffer = 2
  /\ h_index = 0
  /\ d_enq_calls = 0
  /\ d_swaps = 0
  /\ dp_drained = FALSE
  /\ dc_pc = "idle"
  /\ dc_item = DefaultT
  /\ current_read_buffer = 2
  /\ current_read_index = 0
  /\ dc_ret = FALSE
  /\ d_deq_calls = 0
  /\ d_accepted = <<>>
  /\ d_received = <<>>
  /\ batch_of = <<>>
  /\ d_lost = {}
  /\ ws_ret = FALSE
  /\ ws_true = 0
  /\ ws_seen = 0
  /\ cfg_warmup = w
  /\ cfg_num = n
  /\ bp_phase = "warmup"
  /\ bp_at = "loop"
  /\ bp_i = 0
  /\ db_done = FALSE
  /\ bc_phase = "warmup"
  /\ bc_consumed = 0
  /\ db_items_consumed = 0

\* a queue of max_size m, outside the benchmark (k is the batch scenario's k)
DBInitWith(m, k) == DBInitConf(m, k, WarmupOps, NumOps)

\* the queue of the benchmark: DoubleBufferSPSC<TestData> queue(config.queue_size)
DBenchInitWith(w, n) == DBInitConf(QueueSizeD, 0, w, n)

DBInit == DBInitWith(MaxSizeD, 0)

\* enqueue's test on the size n of the write buffer: n >= max_size_
DWriteFull_off(n) == n > db_max_size_
DWriteFull(n) == n >= db_max_size_

\* dequeue's test on the size n of the read buffer: current_read_index >= n
DReadDrained_off(n) == current_read_index > n
DReadDrained(n) == current_read_index >= n

\* has_data's test on the size n of the read buffer: current_read_index < n
DHasData(n) == h_index < n

\* the size of a vector of size n after clear()
SizeAfterClear_kept(n) == n
SizeAfterClear(n) == 0

\* current_write_buffer = write_buffer_.load(acquire)
DEnqLoadWrite ==
  /\ dp_pc = "enq_load_write"
  /\ current_write_buffer' = write_buffer_
  /\ dp_pc' = "enq_check"
  /\ UNCHANGED <<dbShared, dbConf, dp_item, current_write, current_read,
                 dp_ret, h_buffer, h_index, d_enq_calls, d_swaps, dp_drained,
                 dbCons, dbHist, dbFlag, dbBench, notDB>>

\* if (current_write_buffer->size() >= max_size_) return false;
DEnqCheck ==
  /\ dp_pc = "enq_check"
  /\ dp_ret' = IF DWriteFull(vec_size[current_write_buffer]) THEN FALSE ELSE dp_ret
  /\ dp_pc' = IF DWriteFull(vec_size[current_write_buffer]) THEN "return" ELSE "enq_push"
  /\ UNCHANGED <<dbShared, dbConf, dp_item, current_write_buffer,
                 current_write, current_read, h_buffer, h_index, d_enq_calls,
                 d_swaps, dp_drained, dbCons, dbHist, dbFlag, dbBench, notDB>>

\* current_write_buffer->push_back(item): the copy of the element into the
\* storage behind the last element begins
DEnqPushBegin ==
  /\ dp_pc = "enq_push"
  /\ vec_data' = [vec_data EXCEPT ![current_write_buffer][vec_size[current_write_buffer] + 1] = Torn]
  /\ dp_pc' = "enq_push_end"
  /\ UNCHANGED <<vec_size, write_buffer_, read_buffer_, buffer_swapped_,
                 read_index_, dbConf, dp_item, current_write_buffer,
                 current_write, current_read, dp_ret, h_buffer, h_index,
                 d_enq_calls, d_swaps, dp_drained, dbCons, dbHist, dbFlag, dbBench, notDB>>

\* push_back: the copy is complete and the size grows by one; return true
DEnqPushEnd ==
  /\ dp_pc = "enq_push_end"
  /\ vec_data' = [vec_data EXCEPT ![current_write_buffer][vec_size[current_write_buffer] + 1] = dp_item]
  /\ vec_size' = [vec_size EXCEPT ![current_write_buffer] = @ + 1]
  /\ d_accepted' = Append(d_accepted, dp_item)
  /\ dp_ret' = TRUE
  /\ dp_pc' = "return"
  /\ UNCHANGED <<write_buffer_, read_buffer_, buffer_swapped_, read_index_,
                 dbConf, dp_item, current_write_buffer, current_write,
                 current_read, h_buffer, h_index, d_enq_calls, d_swaps,
                 dp_drained, dbCons, d_received, batch_of, d_lost, dbFlag, dbBench, notDB>>

\* current_write = write_buffer_.load(acquire)
DSwapLoadWrite ==
  /\ dp_pc = "swap_load_write"
  /\ current_write' = write_buffer_
  /\ dp_pc' = "swap_load_read"
  /\ UNCHANGED <<dbShared, dbConf, dp_item, current_write_buffer,
                 current_read, dp_ret, h_buffer, h_index, d_enq_calls,
                 d_swaps, dp_drained, dbCons, dbHist, dbFlag, dbBench, notDB>>

\* current_read = read_buffer_.load(acquire)
DSwapLoadRead ==
  /\ dp_pc = "swap_load_read"
  /\ current_read' = read_buffer_
  /\ dp_pc' = "swap_store_write"
  /\ UNCHANGED <<dbShared, dbConf, dp_item, current_write_buffer,
                 current_write, dp_ret, h_buffer, h_index, d_enq_calls,
                 d_swaps, dp_drained, dbCons, dbHist, dbFlag, dbBench, notDB>>

\* write_buffer_.store(current_read, release)
DSwapStoreWrite ==
  /\ dp_pc = "swap_store_write"
  /\ write_buffer_' = current_read
  /\ dp_pc' = "swap_store_read"
  /\ UNCHANGED <<vec_data, vec_size, read_buffer_, buffer_swapped_,
                 read_index_, dbConf, dp_item, current_write_buffer,
                 current_write, current_read, dp_ret, h_buffer, h_index,
                 d_enq_calls, d_swaps, dp_drained, dbCons, dbHist, dbFlag, dbBench, notDB>>

\* read_buffer_.store(current_write, release)
DSwapStoreRead ==
  /\ dp_pc = "swap_store_read"
  /\ read_buffer_' = current_write
  /\ dp_pc' = "swap_clear"
  /\ UNCHANGED <<vec_data, vec_size, write_buffer_, buffer_swapped_,
                 read_index_, dbConf, dp_item, current_write_buffer,
                 current_write, current_read, dp_ret, h_buffer, h_index,
                 d_enq_calls, d_swaps, dp_drained, dbCons, dbHist, dbFlag, dbBench, notDB>>

\* current_read->clear(): the size becomes 0; the storage of the trivially
\* destructible elements stays as it is.  d_lost records the elements that
\* are dropped unreturned while the consumer is outside dequeue.
DSwapClear ==
  /\ dp_pc = "swap_clear"
  /\ vec_size' = [vec_size EXCEPT ![current_read] = SizeAfterClear(@)]
  /\ d_lost' = IF dc_pc = "idle"
       THEN d_lost \cup (Live(current_read) \ SeqRange(d_received))
       ELSE d_lost
  /\ dp_pc' = "swap_reset_index"
  /\ UNCHANGED <<vec_data, write_buffer_, read_buffer_, buffer_swapped_,
                 read_index_, dbConf, dp_item, current_write_buffer,
                 current_write, current_read, dp_ret, h_buffer, h_index,
                 d_enq_calls, d_swaps, dp_drained, dbCons, d_accepted,
                 d_received, batch_of, dbFlag, dbBench, notDB>>

\* read_index_.store(0, release)
DSwapResetIndex ==
  /\ dp_pc = "swap_reset_index"
  /\ read_index_' = 0
  /\ dp_pc' = "swap_flag"
  /\ UNCHANGED <<vec_data, vec_size, write_buffer_, read_buffer_,
                 buffer_swapped_, dbConf, dp_item, current_write_buffer,
                 current_write, current_read, dp_ret, h_buffer, h_index,
                 d_enq_calls, d_swaps, dp_drained, dbCons, dbHist, dbFlag, dbBench, notDB>>

\* buffer_swapped_.store(true, release); return
DSwapFlag ==
  /\ dp_pc = "swap_flag"
  /\ buffer_swapped_' = TRUE
  /\ dp_pc' = "return"
  /\ UNCHANGED <<vec_data, vec_size, write_buffer_, read_buffer_,
                 read_index_, dbConf, dp_item, current_write_buffer,
                 current_write, current_read, dp_ret, h_buffer, h_index,
                 d_enq_calls, d_swaps, dp_drained, dbCons, dbHist, dbFlag, dbBench, notDB>>

\* has_data: current_read_buffer = read_buffer_.load(acquire)
DHasLoadBuffer ==
  /\ dp_pc = "has_load_buffer"
  /\ h_buffer' = read_buffer_
  /\ dp_pc' = "has_load_index"
  /\ UNCHANGED <<dbShared, dbConf, dp_item, current_write_buffer,
                 current_write, current_read, dp_ret, h_index, d_enq_calls,
                 d_swaps, dp_drained, dbCons, dbHist, dbFlag, dbBench, notDB>>

\* has_data: current_read_index = read_index_.load(acquire)
DHasLoadIndex ==
  /\ dp_pc = "has_load_index"
  /\ h_index' = read_index_
  /\ dp_pc' = "has_compare"
  /\ UNCHANGED <<dbShared, dbConf, dp_item, current_write_buffer,
                 current_write, current_read, dp_ret, h_buffer, d_enq_calls,
                 d_swaps, dp_drained, dbCons, dbHist, dbFlag, dbBench, notDB>>

\* has_data: return current_read_index < current_read_buffer->size();
\* dp_drained remembers that the producer saw has_data() return false
DHasCompare ==
  /\ dp_pc = "has_compare"
  /\ dp_ret' = DHasData(vec_size[h_buffer])
  /\ dp_drained' = ~DHasData(vec_size[h_buffer])
  /\ dp_pc' = "return"
  /\ UNCHANGED <<dbShared, dbConf, dp_item, current_write_buffer,
                 current_write, current_read, h_buffer, h_index, d_enq_calls,
                 d_swaps, dbCons, dbHist, dbFlag, dbBench, notDB>>

\* current_read_buffer = read_buffer_.load(acquire)
DDeqLoadBuffer ==
  /\ dc_pc = "deq_load_buffer"
  /\ current_read_buffer' = read_buffer_
  /\ dc_pc' = "deq_load_index"
  /\ UNCHANGED <<dbShared, dbConf, dbProd, dc_item, current_read_index,
                 dc_ret, d_deq_calls, dbHist, dbFlag, dbBench, notDB>>

\* current_read_index = read_index_.load(relaxed)
DDeqLoadIndex ==
  /\ dc_pc = "deq_load_index"
  /\ current_read_index' = read_index_
  /\ dc_pc' = "deq_check"
  /\ UNCHANGED <<dbShared, dbConf, dbProd, dc_item, current_read_buffer,
                 dc_ret, d_deq_calls, dbHist, dbFlag, dbBench, notDB>>

\* if (current_read_index >= current_read_buffer->size()) return false;
DDeqCheck ==
  /\ dc_pc = "deq_check"
  /\ dc_ret' = IF DReadDrained(vec_size[current_read_buffer]) THEN FALSE ELSE dc_ret
  /\ dc_pc' = IF DReadDrained(vec_size[current_read_buffer]) THEN "return" ELSE "deq_read"
  /\ UNCHANGED <<dbShared, dbConf, dbProd, dc_item, current_read_buffer,
                 current_read_index, d_deq_calls, dbHist, dbFlag, dbBench, notDB>>

\* item = std::move((*current_read_buffer)[current_read_index]): the element
\* the storage holds at that index now, whatever the size has become
DDeqRead ==
  /\ dc_pc = "deq_read"
  /\ dc_item' = vec_data[current_read_buffer][current_read_index + 1]
  /\ dc_pc' = "deq_store_index"
  /\ UNCHANGED <<dbShared, dbConf, dbProd, current_read_buffer,
                 current_read_index, dc_ret, d_deq_calls, dbHist, dbFlag, dbBench, notDB>>

\* read_index_.store(current_read_index + 1, release); return true
DDeqStoreIndex ==
  /\ dc_pc = "deq_store_index"
  /\ read_index_' = current_read_index + 1
  /\ d_received' = Append(d_received, dc_item)
  /\ dc_ret' = TRUE
  /\ dc_pc' = "return"
  /\ UNCHANGED <<vec_data, vec_size, write_buffer_, read_buffer_,
                 buffer_swapped_, dbConf, dbProd, dc_item,
                 current_read_buffer, current_read_index, d_deq_calls,
                 d_accepted, batch_of, d_lost, dbFlag, dbBench, notDB>>

\* the producer calls enqueue, each time with a value it has not passed before;
\* batch_of records how many swap_buffers calls came before
DBCallEnqueue ==
  /\ dp_pc = "idle"
  /\ script_k = 0
  /\ d_enq_calls < MaxEnqD
  /\ d_enq_calls' = d_enq_calls + 1
  /\ dp_item' = d_enq_calls + 1
  /\ batch_of' = Append(batch_of, d_swaps)
  /\ dp_pc' = "enq_load_write"
  /\ UNCHANGED <<dbShared, dbConf, current_write_buffer, current_write,
                 current_read, dp_ret, h_buffer, h_index, d_swaps,
                 dp_drained, dbCons, d_accepted, d_received, d_lost, dbFlag, dbBench, notDB>>

\* the producer calls swap_buffers whenever it likes
DBCallSwap ==
  /\ dp_pc = "idle"
  /\ script_k = 0
  /\ d_swaps < MaxSwapsD
  /\ d_swaps' = d_swaps + 1
  /\ dp_drained' = FALSE
  /\ dp_pc' = "swap_load_write"
  /\ UNCHANGED <<dbShared, dbConf, dp_item, current_write_buffer,
                 current_write, current_read, dp_ret, h_buffer, h_index,
                 d_enq_calls, dbCons, dbHist, dbFlag, dbBench, notDB>>

\* the producer calls swap_buffers only after it saw has_data() return false
DBCallSwapDrained ==
  /\ dp_pc = "idle"
  /\ script_k = 0
  /\ d_swaps < MaxSwapsD
  /\ dp_drained
  /\ d_swaps' = d_swaps + 1
  /\ dp_drained' = FALSE
  /\ dp_pc' = "swap_load_write"
  /\ UNCHANGED <<dbShared, dbConf, dp_item, current_write_buffer,
                 current_write, current_read, dp_ret, h_buffer, h_index,
                 d_enq_calls, dbCons, dbHist, dbFlag, dbBench, notDB>>

\* the producer calls has_data
DBCallHasData ==
  /\ dp_pc = "idle"
  /\ script_k = 0
  /\ ~dp_drained
  /\ dp_pc' = "has_load_buffer"
  /\ UNCHANGED <<dbShared, dbConf, dp_item, current_write_buffer,
                 current_write, current_read, dp_ret, h_buffer, h_index,
                 d_enq_calls, d_swaps, dp_drained, dbCons, dbHist, dbFlag, dbBench, notDB>>

\* the producer's call returns
DBReturnProducer ==
  /\ dp_pc = "return"
  /\ dp_pc' = "idle"
  /\ UNCHANGED <<dbShared, dbConf, dp_item, current_write_buffer,
                 current_write, current_read, dp_ret, h_buffer, h_index,
                 d_enq_calls, d_swaps, dp_drained, dbCons, dbHist, dbFlag, dbBench, notDB>>

\* the consumer calls dequeue
DBCallDequeue ==
  /\ dc_pc = "idle"
  /\ script_k = 0
  /\ dc_pc' = "deq_load_buffer"
  /\ UNCHANGED <<dbShared, dbConf, dbProd, dc_item, current_read_buffer,
                 current_read_index, dc_ret, d_deq_calls, dbHist, dbFlag, dbBench, notDB>>

\* the consumer's call returns
DBReturnConsumer ==
  /\ dc_pc = "return"
  /\ dc_pc' = "idle"
  /\ UNCHANGED <<dbShared, dbConf, dbProd, dc_item, current_read_buffer,
                 current_read_index, dc_ret, d_deq_calls, dbHist, dbFlag, dbBench, notDB>>

\* the batch scenario: the producer enqueues script_k elements, ...
ScriptEnqueue ==
  /\ dp_pc = "idle"
  /\ script_k > 0
  /\ d_swaps = 0
  /\ d_enq_calls < script_k
  /\ d_enq_calls' = d_enq_calls + 1
  /\ dp_item' = d_enq_calls + 1
  /\ batch_of' = Append(batch_of, d_swaps)
  /\ dp_pc' = "enq_load_write"
  /\ UNCHANGED <<dbShared, dbConf, current_write_buffer, current_write,
                 current_read, dp_ret, h_buffer, h_index, d_swaps,
                 dp_drained, dbCons, d_accepted, d_received, d_lost, dbFlag, dbBench, notDB>>

\* ... calls swap_buffers once, ...
ScriptSwap ==
  /\ dp_pc = "idle"
  /\ script_k > 0
  /\ d_swaps = 0
  /\ d_enq_calls = script_k
  /\ d_swaps' = d_swaps + 1
  /\ dp_pc' = "swap_load_write"
  /\ UNCHANGED <<dbShared, dbConf, dp_item, current_write_buffer,
                 current_write, current_read, dp_ret, h_buffer, h_index,
                 d_enq_calls, dp_drained, dbCons, dbHist, dbFlag, dbBench, notDB>>

\* ... and then the consumer calls dequeue script_k + 1 times
ScriptDequeue ==
  /\ dc_pc = "idle"
  /\ dp_pc = "idle"
  /\ script_k > 0
  /\ d_swaps = 1
  /\ d_deq_calls < script_k + 1
  /\ d_deq_calls' = d_deq_calls + 1
  /\ dc_pc' = "deq_load_buffer"
  /\ UNCHANGED <<dbShared, dbConf, dbProd, dc_item, current_read_buffer,
                 current_read_index, dc_ret, dbHist, dbFlag, dbBench, notDB>>

\* ---- buffer_was_swapped, called by the consumer ----
\* the number of buffer_swapped_.store(true) made so far: one per
\* swap_buffers call, but for the call that has not got there yet
FlagStores ==
  IF dp_pc \in {"swap_load_write", "swap_load_read", "swap_store_write",
                "swap_store_read", "swap_clear", "swap_reset_index",
                "swap_flag"}
    THEN d_swaps - 1
    ELSE d_swaps

DBCallWasSwapped ==
  /\ dc_pc = "idle"
  /\ script_k = 0
  /\ dc_pc' = "was_exchange"
  /\ UNCHANGED <<dbShared, dbConf, dbProd, dc_item, current_read_buffer,
                 current_read_index, dc_ret, d_deq_calls, dbHist, dbFlag, dbBench, notDB>>

\* the value buffer_swapped_.exchange(false) leaves in the flag
FlagAfterExchange_kept(f) == f
FlagAfterExchange(f) == FALSE

\* return buffer_swapped_.exchange(false, acq_rel);
DWasSwappedExchange ==
  /\ dc_pc = "was_exchange"
  /\ ws_ret' = buffer_swapped_
  /\ buffer_swapped_' = FlagAfterExchange(buffer_swapped_)
  /\ ws_true' = IF buffer_swapped_ THEN ws_true + 1 ELSE ws_true
  /\ ws_seen' = FlagStores
  /\ dc_pc' = "was_return"
  /\ UNCHANGED <<vec_data, vec_size, write_buffer_, read_buffer_, read_index_,
                 dbConf, dbProd, dc_item, current_read_buffer,
                 current_read_index, dc_ret, d_deq_calls, dbHist, dbBench, notDB>>

DBReturnWasSwapped ==
  /\ dc_pc = "was_return"
  /\ dc_pc' = "idle"
  /\ UNCHANGED <<dbShared, dbConf, dbProd, dc_item, current_read_buffer,
                 current_read_index, dc_ret, d_deq_calls, dbHist, dbFlag, dbBench, notDB>>

DBProducerSteps ==
  \/ DEnqLoadWrite
  \/ DEnqCheck
  \/ DEnqPushBegin
  \/ DEnqPushEnd
  \/ DSwapLoadWrite
  \/ DSwapLoadRead
  \/ DSwapStoreWrite
  \/ DSwapStoreRead
  \/ DSwapClear
  \/ DSwapResetIndex
  \/ DSwapFlag
  \/ DBReturnProducer

DBConsumerSteps ==
  \/ DDeqLoadBuffer
  \/ DDeqLoadIndex
  \/ DDeqCheck
  \/ DDeqRead
  \/ DDeqStoreIndex
  \/ DBReturnConsumer

DBHasDataSteps ==
  \/ DHasLoadBuffer
  \/ DHasLoadIndex
  \/ DHasCompare

\* a producer that enqueues and swaps as it likes, and a consumer
DBNext ==
  \/ DBCallEnqueue
  \/ DBCallSwap
  \/ DBCallDequeue
  \/ DBProducerSteps
  \/ DBConsumerSteps

\* a producer that swaps only after has_data() returned false, and a consumer
DBDisciplinedNext ==
  \/ DBCallEnqueue
  \/ DBCallHasData
  \/ DBCallSwapDrained
  \/ DBCallDequeue
  \/ DBProducerSteps
  \/ DBHasDataSteps
  \/ DBConsumerSteps

\* the batch scenario
DBBatchNext ==
  \/ ScriptEnqueue
  \/ ScriptSwap
  \/ ScriptDequeue
  \/ DBProducerSteps
  \/ DBConsumerSteps

\* a producer that enqueues and swaps as it likes, and a consumer that calls
\* buffer_was_swapped
DBFlagNext ==
  \/ DBCallEnqueue
  \/ DBCallSwap
  \/ DBProducerSteps
  \/ DBCallWasSwapped
  \/ DWasSwappedExchange
  \/ DBReturnWasSwapped

\* =====================================================================
\*  benchmark_double_buffer: the producer and consumer thread bodies
\* =====================================================================
\* size_t batch_size = config.queue_size / 4
batch_size == db_max_size_ \div 4

\* the elements are numbered consecutively over the warmup and measured loops
DBenchItem == IF bp_phase = "warmup" THEN bp_i + 1 ELSE cfg_warmup + bp_i + 1

\* the bound of the producer's current loop
DBenchLimit == IF bp_phase = "warmup" THEN cfg_warmup ELSE cfg_num

dbProdLocals == <<current_write_buffer, current_write, current_read, dp_ret,
                  h_buffer, h_index, d_enq_calls, d_swaps, dp_drained>>
dbConsLocals == <<current_read_buffer, current_read_index, d_deq_calls>>

\* producer: the head of for (i = 0; i < warmup_operations; ++i) and of
\* for (i = 0; i < num_operations; ++i): the next enqueue call, the passage
\* from the warmup loop to the measured loop, or the final swap_buffers
DBenchProdLoop ==
  /\ bp_phase \in {"warmup", "run"}
  /\ bp_at = "loop"
  /\ dp_pc = "idle"
  /\ IF bp_i < DBenchLimit
       THEN /\ dp_item' = DBenchItem
            /\ dp_pc' = "enq_load_write"
            /\ bp_at' = "enqueue"
            /\ UNCHANGED <<bp_phase, bp_i>>
       ELSE IF bp_phase = "warmup"
         THEN /\ bp_phase' = "run"
              /\ bp_i' = 0
              /\ UNCHANGED <<dp_item, dp_pc, bp_at>>
         ELSE /\ dp_pc' = "swap_load_write"
              /\ bp_at' = "final_swap"
              /\ UNCHANGED <<dp_item, bp_phase, bp_i>>
  /\ UNCHANGED <<dbShared, dbConf, dbProdLocals, dbCons, dbHist, dbFlag,
                 cfg_warmup, cfg_num, db_done, bc_phase, bc_consumed,
                 db_items_consumed, notDB>>

\* while (!queue.enqueue(data)) { queue.swap_buffers(); sleep_for(1us); }
\* if (i % batch_size == 0) queue.swap_buffers();
DBenchProdEnqReturn ==
  /\ bp_at = "enqueue"
  /\ dp_pc = "return"
  /\ IF ~dp_ret
       THEN /\ dp_pc' = "swap_load_write"
            /\ bp_at' = "retry_swap"
            /\ UNCHANGED bp_i
       ELSE IF bp_i % batch_size = 0
         THEN /\ dp_pc' = "swap_load_write"
              /\ bp_at' = "batch_swap"
              /\ UNCHANGED bp_i
         ELSE /\ dp_pc' = "idle"
              /\ bp_at' = "loop"
              /\ bp_i' = bp_i + 1
  /\ UNCHANGED <<dbShared, dbConf, dp_item, dbProdLocals, dbCons, dbHist,
                 dbFlag, cfg_warmup, cfg_num, bp_phase, db_done, bc_phase,
                 bc_consumed, db_items_consumed, notDB>>

\* swap_buffers returns: to the enqueue it follows a failure of, to the next
\* iteration, or to producer_done.store(true)
DBenchProdSwapReturn ==
  /\ bp_at \in {"retry_swap", "batch_swap", "final_swap"}
  /\ dp_pc = "return"
  /\ IF bp_at = "retry_swap"
       THEN /\ dp_pc' = "enq_load_write"
            /\ bp_at' = "enqueue"
            /\ UNCHANGED <<bp_i, bp_phase, db_done>>
       ELSE IF bp_at = "batch_swap"
         THEN /\ dp_pc' = "idle"
              /\ bp_at' = "loop"
              /\ bp_i' = bp_i + 1
              /\ UNCHANGED <<bp_phase, db_done>>
         ELSE /\ dp_pc' = "idle"
              /\ bp_at' = "loop"
              /\ bp_phase' = "finished"
              /\ db_done' = TRUE
              /\ UNCHANGED bp_i
  /\ UNCHANGED <<dbShared, dbConf, dp_item, dbProdLocals, dbCons, dbHist,
                 dbFlag, cfg_warmup, cfg_num, bc_phase, bc_consumed,
                 db_items_consumed, notDB>>

\* consumer, warmup loop: while (consumed < warmup_operations); consumed = 0
DBenchConsWarmup ==
  /\ bc_phase = "warmup"
  /\ dc_pc = "idle"
  /\ IF bc_consumed < cfg_warmup
       THEN /\ dc_pc' = "deq_load_buffer"
            /\ UNCHANGED <<bc_phase, bc_consumed>>
       ELSE /\ bc_consumed' = 0
            /\ bc_phase' = "run"
            /\ UNCHANGED dc_pc
  /\ UNCHANGED <<dbShared, dbConf, dbProd, dc_item, dbConsLocals, dc_ret,
                 dbHist, dbFlag, cfg_warmup, cfg_num, bp_phase, bp_at, bp_i,
                 db_done, db_items_consumed, notDB>>

\* consumer, measured loop: while (!producer_done.load() || queue.has_data())
\* left operand of ||: the load of producer_done
DBenchConsRun ==
  /\ bc_phase = "run"
  /\ dc_pc = "idle"
  /\ dc_pc' = IF ~db_done THEN "deq_load_buffer" ELSE "has_load_buffer"
  /\ UNCHANGED <<dbShared, dbConf, dbProd, dc_item, dbConsLocals, dc_ret,
                 dbHist, dbFlag, dbBench, notDB>>

\* has_data, called by the consumer:
\* current_read_buffer = read_buffer_.load(acquire)
DCHasLoadBuffer ==
  /\ dc_pc = "has_load_buffer"
  /\ current_read_buffer' = read_buffer_
  /\ dc_pc' = "has_load_index"
  /\ UNCHANGED <<dbShared, dbConf, dbProd, dc_item, current_read_index,
                 dc_ret, d_deq_calls, dbHist, dbFlag, dbBench, notDB>>

\* current_read_index = read_index_.load(acquire)
DCHasLoadIndex ==
  /\ dc_pc = "has_load_index"
  /\ current_read_index' = read_index_
  /\ dc_pc' = "has_compare"
  /\ UNCHANGED <<dbShared, dbConf, dbProd, dc_item, current_read_buffer,
                 dc_ret, d_deq_calls, dbHist, dbFlag, dbBench, notDB>>

\* return current_read_index < current_read_buffer->size();
DCHasCompare ==
  /\ dc_pc = "has_compare"
  /\ dc_ret' = (current_read_index < vec_size[current_read_buffer])
  /\ dc_pc' = "has_return"
  /\ UNCHANGED <<dbShared, dbConf, dbProd, dc_item, current_read_buffer,
                 current_read_index, d_deq_calls, dbHist, dbFlag, dbBench, notDB>>

\* right operand of ||: has_data() has returned; the loop body is entered, or
\* the loop is left and items_consumed.store(consumed) follows
DBenchConsHasReturn ==
  /\ dc_pc = "has_return"
  /\ IF dc_ret
       THEN /\ dc_pc' = "deq_load_buffer"
            /\ UNCHANGED <<bc_phase, db_items_consumed>>
       ELSE /\ dc_pc' = "idle"
            /\ bc_phase' = "finished"
            /\ db_items_consumed' = bc_consumed
  /\ UNCHANGED <<dbShared, dbConf, dbProd, dc_item, dbConsLocals, dc_ret,
                 dbHist, dbFlag, cfg_warmup, cfg_num, bp_phase, bp_at, bp_i,
                 db_done, bc_consumed, notDB>>

\* if (queue.dequeue(data)) consumed++; else yield();
DBenchConsDeqReturn ==
  /\ bc_phase \in {"warmup", "run"}
  /\ dc_pc = "return"
  /\ bc_consumed' = IF dc_ret THEN bc_consumed + 1 ELSE bc_consumed
  /\ dc_pc' = "idle"
  /\ UNCHANGED <<dbShared, dbConf, dbProd, dc_item, dbConsLocals, dc_ret,
                 dbHist, dbFlag, cfg_warmup, cfg_num, bp_phase, bp_at, bp_i,
                 db_done, bc_phase, db_items_consumed, notDB>>

DBenchProducer ==
  \/ DBenchProdLoop
  \/ DBenchProdEnqReturn
  \/ DBenchProdSwapReturn
  \/ DEnqLoadWrite
  \/ DEnqCheck
  \/ DEnqPushBegin
  \/ DEnqPushEnd
  \/ DSwapLoadWrite
  \/ DSwapLoadRead
  \/ DSwapStoreWrite
  \/ DSwapStoreRead
  \/ DSwapClear
  \/ DSwapResetIndex
  \/ DSwapFlag

DBenchConsumer ==
  \/ DBenchConsWarmup
  \/ DBenchConsRun
  \/ DCHasLoadBuffer
  \/ DCHasLoadIndex
  \/ DCHasCompare
  \/ DBenchConsHasReturn
  \/ DBenchConsDeqReturn
  \/ DDeqLoadBuffer
  \/ DDeqLoadIndex
  \/ DDeqCheck
  \/ DDeqRead
  \/ DDeqStoreIndex

DBenchNext == DBenchProducer \/ DBenchConsumer

\* =====================================================================
\*  Instantiation of SPSCLockFreeQueue<T, Size>
\*  (src/spsc_lockfree_queue.hpp:7-9)
\* =====================================================================
\* Size - 1 in unsigned arithmetic: 0 - 1 wraps to the largest word
SizeMinusOne(S) == (S + WordRange - 1) % WordRange

\* the condition of the static_assert: (Size & (Size - 1)) == 0
StaticAssertHolds(S) == BitAnd(S, SizeMinusOne(S)) = 0

\* the template as the rest of the model instantiates it
TmplInit ==
  /\ tmpl_size = Size
  /\ tmpl_state = "accepted"

\* an instantiation with the given template argument, not yet compiled
TmplInitWith(S) ==
  /\ tmpl_size = S
  /\ tmpl_state = "pending"

\* the compiler evaluates the static_assert of the instantiation
TmplStaticAssert ==
  /\ tmpl_state = "pending"
  /\ tmpl_state' = IF StaticAssertHolds(tmpl_size) THEN "accepted" ELSE "rejected"
  /\ UNCHANGED <<tmpl_size, ringVars, benchVars, lockedVars, dbVars>>

TmplNext == TmplStaticAssert

\* =====================================================================
\*  Specifications
\* =====================================================================
Init == RingInit /\ BenchInit /\ LockedInit /\ DBInit /\ TmplInit

SpecRing == Init /\ [][RingNext]_vars

\* the ring with both threads calling enqueue or dequeue, and size()
SpecRingSize == Init /\ [][RingSizeNext]_vars

\* both threads are scheduled again and again while they have a step to take
SpecRingBench ==
  Init /\ [][RingBenchNext]_vars /\ WF_vars(BenchProducer) /\ WF_vars(BenchConsumer)

SpecLocked == Init /\ [][LockedNext]_vars

SpecDB == Init /\ [][DBNext]_vars

SpecDBDisciplined == Init /\ [][DBDisciplinedNext]_vars

\* the batch scenario, for every max_size up to MaxBatchD and every k up to it
BatchInit ==
  /\ RingInit /\ BenchInit /\ LockedInit /\ TmplInit
  /\ \E m \in 1 .. MaxBatchD : \E k \in 1 .. m : DBInitWith(m, k)

SpecDBBatch == BatchInit /\ [][DBBatchNext]_vars

\* LockedQueue, with any thread calling anything or with one of the given
\* sequences of calls
ScriptInit ==
  /\ RingInit /\ BenchInit /\ DBInit /\ TmplInit
  /\ \E s \in {<<>>} \cup LScripts : LockedInitWith(s)
SpecLockedScript == ScriptInit /\ [][LockedScriptNext]_vars

\* one of the three queues is used and the other two stay as constructed; the
\* calls on DoubleBufferSPSC do not overlap
DBProducerAlone == dc_pc = "idle" /\ (DBCallEnqueue \/ DBCallSwap \/ DBProducerSteps)
DBConsumerAlone == dp_pc = "idle" /\ (DBCallDequeue \/ DBConsumerSteps)
OneQueueNext ==
  \/ LockedInit /\ DBInit /\ RingNext
  \/ RingInit /\ DBInit /\ LockedNext
  \/ RingInit /\ LockedInit /\ DBProducerAlone
  \/ RingInit /\ LockedInit /\ DBConsumerAlone
SpecOneQueue == Init /\ [][OneQueueNext]_vars

\* LockedQueue with every thread scheduled again and again
SpecLockedFair ==
  Init /\ [][LockedNext]_vars /\ \A t \in Threads : WF_vars(LRun(t))

\* DoubleBufferSPSC with a consumer that calls buffer_was_swapped
SpecDBFlag == Init /\ [][DBFlagNext]_vars

\* the template instantiated with every Size a size_t of WordBits bits can hold
TmplAnyInit ==
  /\ RingInit /\ BenchInit /\ LockedInit /\ DBInit
  /\ \E S \in 0 .. WordRange - 1 : TmplInitWith(S)
SpecTmpl == TmplAnyInit /\ [][TmplNext]_vars

\* benchmark_double_buffer on a queue of QueueSizeD elements, for every
\* warmup_operations up to WarmupOps and every num_operations up to NumOps,
\* both threads scheduled again and again while they have a step to take
DBenchInit ==
  /\ RingInit /\ BenchInit /\ LockedInit /\ TmplInit
  /\ \E w \in 1 .. WarmupOps : \E n \in 1 .. NumOps : DBenchInitWith(w, n)
SpecDBBench ==
  DBenchInit /\ [][DBenchNext]_vars
    /\ WF_vars(DBenchProducer) /\ WF_vars(DBenchConsumer)

\* =====================================================================
\*  Properties of SPSCLockFreeQueue
\* =====================================================================
\* the number of stored elements: successful enqueues minus successful dequeues
RingStored == Len(enq_hist) - Len(deq_hist)

\* C1: with one producer and one consumer, at every moment of every
\* interleaving of their loads, slot accesses and stores, the values returned
\* by the successful dequeue calls are a prefix of the values passed to the
\* successful enqueue calls.
C1_DequeuedPrefixOfEnqueued == IsPrefix(deq_hist, enq_hist)

\* every accepted value has come out again, after both indices wrapped around
C1_Witness ==
  /\ Len(deq_hist) > Size
  /\ deq_hist = enq_hist
  /\ \E k \in 1 .. MaxCalls : p_calls = k /\ Len(enq_hist) < k

BenchAllIds == [i \in 1 .. WarmupOps + NumOps |-> i]

BenchTerminated == hp_phase = "finished" /\ hc_phase = "finished"

\* C2: in the benchmark run, under fair scheduling, both threads terminate,
\* and when they have the consumer has received the identifiers of all the
\* elements, each once, and counted num_operations of them in the measured loop.
C2_BenchTerminatesWithAll ==
  /\ <>BenchTerminated
  /\ [](BenchTerminated =>
          /\ deq_hist = BenchAllIds
          /\ items_consumed = NumOps)

C2_Witness ==
  /\ BenchTerminated
  /\ deq_hist = BenchAllIds
  /\ items_consumed = NumOps

\* C9: never more than Size - 1 = capacity() elements are stored; with no
\* dequeue, the first Size - 1 enqueue calls return true, every later one
\* returns false, and a call that returns false leaves tail and the slots as
\* they were when it began.
C9_CapacityBound ==
  /\ capacity = Size - 1
  /\ RingStored <= capacity
  /\ (p_pc = "enq_return" /\ deq_hist = <<>> /\ head = 0)
       => /\ p_ret = (p_calls <= Size - 1)
          /\ Len(enq_hist) = (IF p_calls <= Size - 1 THEN p_calls ELSE Size - 1)
  /\ (p_pc = "enq_return" /\ ~p_ret)
       => /\ tail = call_tail
          /\ buffer = call_buffer

\* the queue is full, nothing was dequeued, and one more enqueue has failed
C9_Witness ==
  /\ p_pc = "enq_return"
  /\ ~p_ret
  /\ deq_hist = <<>>
  /\ p_calls = Size + 1
  /\ RingStored = capacity

\* empty() returns, the producer being idle and the index loaded first
\* being unchanged
EmptyReturnsQuiet ==
  /\ c_pc = "empty_second"
  /\ c_pc' = "empty_return"
  /\ p_pc = "idle"
  /\ e_first = (IF e_order = "head_first" THEN head ELSE tail)

\* full() returns, the consumer being idle
FullReturnsQuiet ==
  /\ p_pc = "full_load_head"
  /\ p_pc' = "full_return"
  /\ c_pc = "idle"

\* C17: in every reachable state the number of stored elements (successful
\* enqueues minus successful dequeues) equals (tail - head) mod Size; hence,
\* with no operation in progress, empty() returns true iff head = tail iff
\* the queue holds 0 elements, and full() returns true iff
\* (tail + 1) mod Size = head iff the queue holds Size - 1 elements.  A call
\* of empty() or full() counts here when the other thread is idle as it
\* returns and the index it loaded first has not changed since.
C17_StoredIsIndexDistance ==
  /\ [](RingStored = (tail - head) % Size)
  /\ []((p_pc = "idle" /\ c_pc = "idle") =>
          /\ (head = tail) = (RingStored = 0)
          /\ ((tail + 1) % Size = head) = (RingStored = Size - 1))
  /\ [][ /\ EmptyReturnsQuiet =>
               /\ c_ret' = (head = tail)
               /\ c_ret' = (RingStored = 0)
         /\ FullReturnsQuiet =>
               /\ p_ret' = ((tail + 1) % Size = head)
               /\ p_ret' = (RingStored = Size - 1)
       ]_vars

\* full() has returned true on a queue of Size - 1 elements after the indices
\* wrapped around, the consumer being idle
C17_Witness ==
  /\ p_pc = "full_return"
  /\ p_ret
  /\ c_pc = "idle"
  /\ RingStored = Size - 1
  /\ tail < head
  /\ Len(deq_hist) >= 1

\* empty() has returned true on a drained queue
C17_EmptyReached ==
  /\ c_pc = "empty_return" /\ c_ret /\ p_pc = "idle"
  /\ Len(deq_hist) >= 1 /\ RingStored = 0

\* the slots that hold stored elements: from head up to, not including, tail
StoredSlots == {(head + k) % Size : k \in 0 .. RingStored - 1}

\* the producer is about to write, or is writing, buffer[current_tail]
SlotWriteInProgress == p_pc \in {"enq_write", "enq_write_end"}

\* the consumer is about to read buffer[current_head]
SlotReadPending == c_pc = "deq_read"

\* C23: the slot write of enqueue comes before the tail store and the slot
\* read of dequeue before the head store: in no reachable state is the
\* producer writing buffer[i] while the consumer is reading buffer[i]; the
\* consumer only reads a slot whose write has completed (every slot between
\* head and tail holds the element enqueued into it), and the producer only
\* overwrites a slot whose previous value has been moved out.
C23_NoConcurrentSlotAccess ==
  /\ ~(SlotWriteInProgress /\ SlotReadPending /\ current_tail = current_head)
  /\ \A k \in 0 .. RingStored - 1 :
       buffer[(head + k) % Size] = enq_hist[Len(deq_hist) + 1 + k]
  /\ SlotReadPending =>
       /\ current_head \in StoredSlots
       /\ buffer[current_head] = enq_hist[Len(deq_hist) + 1]
  /\ c_pc = "deq_store_head" => c_item = enq_hist[Len(deq_hist) + 1]
  /\ SlotWriteInProgress => current_tail \notin StoredSlots

\* after the indices wrapped around, the producer is in the middle of
\* overwriting a slot whose element was moved out while the consumer is about
\* to read another slot
C23_Witness ==
  /\ p_pc = "enq_write_end"
  /\ buffer[current_tail] = Torn
  /\ SlotReadPending
  /\ current_tail # current_head
  /\ Len(enq_hist) >= Size
  /\ current_tail < current_head

\* C24: in every reachable state 0 <= head < Size and 0 <= tail < Size; head
\* is written only by dequeue and tail only by enqueue; a call that succeeds
\* advances its index by exactly one modulo Size and a call that fails leaves
\* it as it was.
C24_IndicesInRange ==
  /\ [](head \in 0 .. Size - 1 /\ tail \in 0 .. Size - 1)
  /\ []((p_pc = "enq_return") =>
          tail = (IF p_ret THEN (call_tail + 1) % Size ELSE call_tail))
  /\ []((c_pc = "deq_return") =>
          head = (IF c_ret THEN (current_head + 1) % Size ELSE current_head))
  /\ [][ /\ head' # head =>
              /\ c_pc = "deq_store_head"
              /\ head' = (head + 1) % Size
              /\ c_ret'
         /\ tail' # tail =>
              /\ p_pc = "enq_store_tail"
              /\ tail' = (tail + 1) % Size
              /\ p_ret'
         /\ (c_pc = "deq_load_head" /\ c_pc' # c_pc) => current_head' = head
       ]_vars

\* an enqueue has succeeded and taken tail from Size - 1 round to 0
C24_Witness ==
  /\ p_pc = "enq_return"
  /\ p_ret
  /\ call_tail = Size - 1
  /\ tail = 0
  /\ head > 0

\* a dequeue has succeeded and taken head from Size - 1 round to 0
C24_HeadWrapped ==
  /\ c_pc = "deq_return"
  /\ c_ret
  /\ current_head = Size - 1
  /\ head = 0

\* an enqueue has failed on a full queue and a dequeue on an empty one
C24_EnqueueFailed == p_pc = "enq_return" /\ ~p_ret /\ tail = call_tail
C24_DequeueFailed == c_pc = "deq_return" /\ ~c_ret /\ Len(deq_hist) > 0

\* C25: when size() is called by the producer thread or by the consumer
\* thread, the value it returns is the number of stored elements at some
\* instant between its two index loads, and so lies in 0 .. Size - 1.
C25_SizeIsAMomentaryCount ==
  /\ p_pc = "size_return" =>
       /\ sz_ret["producer"] \in sz_seen["producer"]
       /\ sz_ret["producer"] \in 0 .. Size - 1
  /\ c_pc = "size_return" =>
       /\ sz_ret["consumer"] \in sz_seen["consumer"]
       /\ sz_ret["consumer"] \in 0 .. Size - 1

\* the consumer's size() has returned after the producer stored tail between
\* its two loads, with tail wrapped round below head
C25_Witness ==
  /\ c_pc = "size_return"
  /\ Cardinality(sz_seen["consumer"]) > 1
  /\ tail < sz_head["consumer"]
  /\ sz_ret["consumer"] > 0

\* the producer's size() has returned after the consumer stored head between
\* its two loads, with tail wrapped round below head
C25_ProducerReached ==
  /\ p_pc = "size_return"
  /\ Cardinality(sz_seen["producer"]) > 1
  /\ tail < sz_head["producer"]
  /\ sz_ret["producer"] > 0

\* =====================================================================
\*  Properties of LockedQueue
\* =====================================================================
\* thread t has completed an operation and not begun another
LCompleted(t) == l_pc[t] \in {"unlock", "idle"} /\ l_op[t] # "none"

\* C3: with any number of threads calling any of the operations, every
\* execution agrees with the same operations applied one at a time, in the
\* order the mutex was taken, to a sequential bounded FIFO queue: at most one
\* thread owns the mutex, the queue equals the reference queue whenever the
\* mutex is free, every completed operation has the reference's result and
\* output, and the elements leave in the order they were inserted.
C3_LockedRefinesSequentialQueue ==
  /\ Cardinality(mutex_) <= 1
  /\ (mutex_ = {} => queue_ = abs_queue)
  /\ \A t \in Threads :
       LCompleted(t) =>
         /\ l_ret[t] = exp_ret[t]
         /\ l_size[t] = exp_size[t]
         /\ (l_op[t] \in {"dequeue", "dequeue_blocking"} => l_item[t] = exp_out[t])
  /\ IsPrefix(l_returned, l_accepted)

\* a blocking and a non-blocking dequeue of two threads have both handed out
\* an element, and an enqueue was refused
C3_Witness ==
  /\ Len(l_returned) = 2
  /\ \E t, u \in Threads :
       /\ t # u
       /\ l_pc[t] = "idle" /\ l_op[t] = "dequeue_blocking"
       /\ l_pc[u] = "idle" /\ l_op[u] = "dequeue" /\ l_ret[u]

\* C4: with any number of producer and consumer threads, no element is handed
\* out twice, every element handed out was accepted by an enqueue before, and
\* once all threads have finished the elements handed out together with those
\* still stored are exactly the elements accepted.
C4_LockedNoLossNoDuplication ==
  /\ \A i, j \in 1 .. Len(l_returned) : i # j => l_returned[i] # l_returned[j]
  /\ SeqRange(l_returned) \subseteq SeqRange(l_accepted)
  /\ (\A t \in Threads : l_pc[t] = "idle") =>
        /\ SeqRange(l_returned) \cup SeqRange(queue_) = SeqRange(l_accepted)
        /\ Len(l_returned) + Len(queue_) = Len(l_accepted)

\* all calls are over; two threads enqueued, elements were handed out and one
\* is still stored
C4_Witness ==
  /\ \A t \in Threads : l_pc[t] = "idle"
  /\ l_calls = MaxCallsL
  /\ Len(l_returned) >= 1
  /\ Len(queue_) >= 1
  /\ \E t, u \in Threads : t # u /\ l_op[t] = "enqueue" /\ l_op[u] = "enqueue"

\* C10: constructed with max_size = M, the queue never stores more than M
\* elements, however many threads enqueue concurrently.
C10_LockedSizeBound == Len(queue_) <= MaxSizeL

\* the queue holds M elements while two threads are inside enqueue, one of
\* them already refused
C10_Witness ==
  /\ Len(queue_) = MaxSizeL
  /\ \E t, u \in Threads :
       /\ t # u
       /\ l_op[t] = "enqueue" /\ l_pc[t] = "unlock" /\ ~l_ret[t]
       /\ l_op[u] = "enqueue" /\ l_pc[u] = "lock"

\* the results of the scenario's calls, and the elements its dequeues hand out
LScenarioRet == <<TRUE, TRUE, FALSE, TRUE, TRUE, TRUE, TRUE, FALSE>>
LScenarioOut == <<0, 0, 0, 1, 0, 2, 3, 0>>

\* C11: enqueue returns false and leaves the queue unchanged exactly when the
\* queue held max_size elements when the mutex was taken, and otherwise
\* appends its argument and returns true; of max_size + 1 enqueue calls on an
\* empty queue, made by one thread or by several concurrently, exactly
\* max_size return true; and with max_size = 2 the calls enqueue(A),
\* enqueue(B), enqueue(C), dequeue, enqueue(C), dequeue, dequeue, dequeue
\* yield true, true, false, A, true, B, C, false.
C11_EnqueueRejectsExactlyWhenFull ==
  /\ \A t \in Threads :
       (l_op[t] = "enqueue" /\ l_pc[t] = "unlock") =>
          IF Len(l_seen[t]) = MaxSizeL
            THEN ~l_ret[t] /\ queue_ = l_seen[t]
            ELSE l_ret[t] /\ queue_ = Append(l_seen[t], l_arg[t])
  /\ (l_script \in LFillScripts /\ l_calls = Len(l_script)
       /\ \A t \in Threads : l_pc[t] = "idle")
        => Len(l_accepted) = MaxSizeL /\ Len(queue_) = MaxSizeL
  /\ (l_script = LScenario /\ l_calls >= 1 /\ l_pc[1] \in {"unlock", "idle"})
        => /\ l_ret[1] = LScenarioRet[l_calls]
           /\ (l_script[l_calls].op = "dequeue" /\ l_ret[1])
                 => l_item[1] = LScenarioOut[l_calls]

\* the scenario has run to its end
C11_Witness ==
  /\ l_script = LScenario
  /\ l_calls = Len(LScenario)
  /\ l_pc[1] = "idle"
  /\ ~l_ret[1]
  /\ l_returned = <<1, 2, 3>>
  /\ l_accepted = <<1, 2, 3>>

\* max_size + 1 concurrent enqueue calls are over, one of them refused
C11_FillReached ==
  /\ l_script \in LFillScripts
  /\ l_calls = Len(l_script)
  /\ \A t \in Threads : l_pc[t] = "idle"
  /\ \E t, u \in Threads :
       t # u /\ l_op[t] = "enqueue" /\ ~l_ret[t] /\ l_op[u] = "enqueue" /\ l_ret[u]

\* C13: dequeue_blocking never returns while the queue is empty and never
\* pops from an empty queue: it reaches front() and pop() only with the mutex
\* held and the queue non-empty, and when it returns it has removed exactly
\* the element that was at the front and written it to the output; also
\* after spurious wakeups and with several consumers after the same element.
C13_BlockingDequeueTakesFront ==
  \A t \in Threads :
    l_op[t] = "dequeue_blocking" =>
      /\ l_pc[t] \in {"front", "pop"} =>
            /\ t \in mutex_
            /\ queue_ # <<>>
            /\ queue_ = l_seen[t]
      /\ l_pc[t] = "pop" => l_item[t] = Head(queue_)
      /\ l_pc[t] = "unlock" =>
            /\ l_seen[t] # <<>>
            /\ queue_ = Tail(l_seen[t])
            /\ l_item[t] = Head(l_seen[t])
            /\ l_returned[Len(l_returned)] = l_item[t]

\* two blocking consumers were after one element: one has removed it and is
\* returning, the other was woken for it and finds the queue empty
C13_Witness ==
  \E t, u \in Threads :
    /\ t # u
    /\ l_op[t] = "dequeue_blocking" /\ l_pc[t] = "unlock" /\ l_item[t] = 1
    /\ l_op[u] = "dequeue_blocking" /\ l_pc[u] = "relock"
    /\ queue_ = <<>>

\* thread t is inside dequeue_blocking and has not removed its element yet
LPending(t) ==
  /\ l_op[t] = "dequeue_blocking"
  /\ l_pc[t] \in {"lock", "body", "waiting", "relock", "front", "pop"}

\* the successful enqueues are at least as many as the dequeue_blocking calls
\* plus the successful non-blocking dequeues: the elements accepted and not
\* yet handed out are at least as many as the pending dequeue_blocking calls
LEnough ==
  Len(l_accepted) - Len(l_returned) >= Cardinality({t \in Threads : LPending(t)})

IsElement(v) == v \in 1 .. Len(batch_of)

\* C5: if the producer calls swap_buffers only after has_data() returned
\* false, then in every interleaving every accepted element is returned
\* exactly once and in enqueue order: at every moment the returned values are
\* a prefix of the accepted values.
C5_DisciplinedExactlyOnceInOrder == IsPrefix(d_received, d_accepted)

\* C6: in every interleaving, the elements of one batch that the consumer
\* receives are returned in enqueue order, each at most once.
C6_BatchInOrderAtMostOnce ==
  \A i, j \in 1 .. Len(d_received) :
    (/\ i < j
     /\ IsElement(d_received[i])
     /\ IsElement(d_received[j])
     /\ batch_of[d_received[i]] = batch_of[d_received[j]])
      => d_received[i] < d_received[j]

\* C7: for every k from 1 to max_size: after k enqueue calls and one
\* swap_buffers call with no consumer activity in between, the next k dequeue
\* calls succeed and return the k elements in enqueue order, and the
\* (k+1)-th dequeue call returns false.
C7_BatchIntegrity ==
  (script_k > 0 /\ dc_pc = "return") =>
     IF d_deq_calls <= script_k
       THEN /\ dc_ret
            /\ dc_item = d_deq_calls
            /\ d_received = [i \in 1 .. d_deq_calls |-> i]
       ELSE /\ ~dc_ret
            /\ d_received = [i \in 1 .. script_k |-> i]
            /\ d_accepted = d_received

\* the largest batch was published and drained, and one more dequeue failed
C7_Witness ==
  /\ script_k = MaxBatchD
  /\ db_max_size_ = MaxBatchD
  /\ d_deq_calls = script_k + 1
  /\ dc_pc = "return"
  /\ ~dc_ret
  /\ Len(d_received) = script_k

\* C8: elements that a swap_buffers call clears away unread, while the
\* consumer is lagging outside dequeue, are not returned by any later dequeue.
\* (That such an execution exists, with every call returning normally, is the
\* witness.)
C8_LostNeverReturned == d_lost \cap SeqRange(d_received) = {}

\* batch, swap, second batch, second swap before the first batch was drained:
\* every enqueue was accepted, every call has returned, the consumer has
\* drained what it could get, and an element of the first batch is gone
C8_Witness ==
  /\ d_swaps = 2
  /\ dp_pc = "idle"
  /\ dc_pc = "idle"
  /\ Len(d_accepted) = d_enq_calls
  /\ \E e \in d_lost : batch_of[e] = 0
  /\ \E e \in SeqRange(d_received) : IsElement(e) /\ batch_of[e] = 1
  /\ ~dc_ret
  /\ read_index_ = vec_size[read_buffer_]
  /\ d_lost \cap SeqRange(d_received) = {}

\* a step of DoubleBufferSPSC::enqueue
DBEnqueueStep ==
  /\ dp_pc \in {"enq_load_write", "enq_check", "enq_push", "enq_push_end"}
  /\ dp_pc' # dp_pc

\* C15: with max_size = M neither buffer ever holds more than M elements;
\* enqueue returns false, leaving both buffers, both role pointers and the
\* read cursor unchanged, exactly when the write buffer already holds M
\* elements, and otherwise appends its argument at the end of the write
\* buffer, touching nothing else, and returns true.
C15_EnqueueBoundedAppend ==
  /\ [](\A b \in Buffers : vec_size[b] <= db_max_size_)
  /\ [][ DBEnqueueStep =>
           LET w == write_buffer_
               n == vec_size[w]
           IN
           /\ UNCHANGED <<write_buffer_, read_buffer_, read_index_>>
           /\ vec_size'[read_buffer_] = vec_size[read_buffer_]
           /\ vec_data'[read_buffer_] = vec_data[read_buffer_]
           /\ \A i \in 1 .. n : vec_data'[w][i] = vec_data[w][i]
           /\ dp_pc = "enq_check" =>
                IF n = db_max_size_
                  THEN /\ dp_pc' = "return"
                       /\ ~dp_ret'
                       /\ UNCHANGED <<vec_data, vec_size>>
                  ELSE /\ dp_pc' = "enq_push"
                       /\ UNCHANGED <<vec_data, vec_size>>
           /\ dp_pc' = "return" =>
                \/ ~dp_ret' /\ n = db_max_size_ /\ UNCHANGED <<vec_data, vec_size>>
                \/ /\ dp_ret'
                   /\ vec_size'[w] = n + 1
                   /\ vec_data'[w][n + 1] = dp_item
                   /\ n < db_max_size_
        ]_vars

\* an enqueue was refused on a full write buffer while a dequeue was running
C15_Witness ==
  /\ dp_pc = "return"
  /\ ~dp_ret
  /\ d_swaps = 1
  /\ vec_size[write_buffer_] = db_max_size_
  /\ Len(d_accepted) < d_enq_calls
  /\ dc_pc = "deq_check"

\* the producer is at an append to vector b (push_back in enqueue) or at
\* b's clear() in swap_buffers
ProducerWrites(b) ==
  \/ dp_pc \in {"enq_push", "enq_push_end"} /\ current_write_buffer = b
  \/ dp_pc = "swap_clear" /\ current_read = b

\* the consumer, inside dequeue with vector b loaded as its read buffer, is at
\* the read of b's size or of one of b's elements
ConsumerReads(b) ==
  /\ dc_pc \in {"deq_check", "deq_read"}
  /\ current_read_buffer = b

\* C16: with one producer and one consumer there is no data race on the
\* buffers: in no reachable state is the producer appending to or clearing a
\* buffer while the consumer, with that buffer loaded as its read buffer in a
\* call in progress, reads its size or one of its elements.
C16_NoDataRaceOnBuffers ==
  \A b \in Buffers : ~(ProducerWrites(b) /\ ConsumerReads(b))

\* the step of buffer_was_swapped() that reads and resets the flag
WasSwappedStep == dc_pc = "was_exchange" /\ dc_pc' = "was_return"

\* C18, as stated: buffer_was_swapped() returns false before the first
\* swap_buffers, for each swap_buffers call exactly one buffer_was_swapped()
\* call returns true (so once no swap is in progress and the flag has been
\* read back to false, as many calls have returned true as there were
\* swaps), and a call with no swap since the previous call returns false.
C18_TrueOncePerSwap ==
  /\ []((d_swaps = 0) => (~ws_ret /\ ws_true = 0))
  /\ []((FlagStores = d_swaps /\ ~buffer_swapped_) => ws_true = d_swaps)
  /\ [][(WasSwappedStep /\ FlagStores = ws_seen) => ~ws_ret']_vars

\* C18, amended: buffer_was_swapped() returns true exactly when at least one
\* swap_buffers call has set the flag since the previous buffer_was_swapped()
\* call (or since construction), and it leaves the flag false; so it returns
\* false before the first swap and on a repeated call with no swap in
\* between, and the calls that returned true are never more than the swaps.
C18_TrueIffSwappedSinceLastCall ==
  /\ []((d_swaps = 0) => (~ws_ret /\ ws_true = 0))
  /\ [](ws_true <= FlagStores)
  /\ [][WasSwappedStep =>
          /\ ws_ret' = (FlagStores > ws_seen)
          /\ ~buffer_swapped_']_vars

\* two swaps were made before the flag was read: one call has returned true
\* and the next call false
C18_Witness ==
  /\ d_swaps = 2
  /\ dp_pc = "idle"
  /\ ws_true = 1
  /\ ws_seen = 2
  /\ dc_pc = "was_return"
  /\ ~ws_ret

\* C20: at every instant, the states between the two role stores of
\* swap_buffers included, write_buffer_ and read_buffer_ designate different
\* buffers: one of buffer1_ and buffer2_ has the write role and the other the
\* read role.
C20_RolesAlwaysDistinct ==
  /\ write_buffer_ \in Buffers
  /\ read_buffer_ \in Buffers
  /\ write_buffer_ # read_buffer_

\* what the two stores do keep: the roles are distinct except between the
\* store to write_buffer_ and the store to read_buffer_
RolesDistinctOutsideStores ==
  /\ write_buffer_ \in Buffers
  /\ read_buffer_ \in Buffers
  /\ (dp_pc # "swap_store_read" <=> write_buffer_ # read_buffer_)

\* both role pointers designate the same buffer while a dequeue is in progress
RolesEqualDuringDequeue ==
  write_buffer_ = read_buffer_ /\ dc_pc # "idle"

\* C21: at every instant read_index_ is at most the size of the buffer that
\* read_buffer_ designates, while a swap_buffers is in progress and when a
\* swap overlaps a dequeue that has loaded the cursor included.
C21_CursorWithinReadBuffer ==
  read_index_ <= vec_size[read_buffer_]

\* the cursor is beyond the read buffer's size with both threads outside any
\* call: a dequeue that loaded the cursor before a swap stored it after
CursorBeyondSizeAtRest ==
  /\ dp_pc = "idle"
  /\ dc_pc = "idle"
  /\ read_index_ > vec_size[read_buffer_]

\* C22: the elements of the write buffer are private to the producer until a
\* swap publishes them: dequeue returns an element only if a swap_buffers call
\* began after the enqueue of that element, and until the first swap_buffers
\* has_data() is false and dequeue returns false.
C22_PrivateUntilSwap ==
  /\ \A i \in 1 .. Len(d_received) :
       IsElement(d_received[i]) => batch_of[d_received[i]] < d_swaps
  /\ d_swaps = 0 =>
       /\ d_received = <<>>
       /\ dc_pc = "return" => ~dc_ret
       /\ dp_pc = "has_compare" => ~DHasData(vec_size[h_buffer])

\* before any swap_buffers, a dequeue and a has_data have both returned false
NothingBeforeFirstSwap ==
  /\ d_swaps = 0
  /\ Len(d_accepted) > 0
  /\ dc_pc = "return"
  /\ ~dc_ret
  /\ dp_drained

\* what holds of the first batch: nothing is returned before a swap_buffers
\* call has begun
NothingReturnedBeforeFirstSwap ==
  d_swaps = 0 =>
    /\ d_received = <<>>
    /\ dc_pc = "return" => ~dc_ret
    /\ dp_pc = "has_compare" => ~DHasData(vec_size[h_buffer])

DBenchTerminated == bp_phase = "finished" /\ bc_phase = "finished"

\* C26: in the double-buffer benchmark run, under fair scheduling, both
\* threads always terminate.
C26_DBenchTerminates == <>DBenchTerminated

\* the producer has finished and the consumer, still in its warmup loop, has
\* nothing left to dequeue
DBenchConsumerStarved ==
  /\ bp_phase = "finished"
  /\ bc_phase = "warmup"
  /\ bc_consumed < cfg_warmup
  /\ dc_pc = "idle"
  /\ read_index_ >= vec_size[read_buffer_]

\* what does hold: the producer always terminates
DBenchProducerTerminates == <>(bp_phase = "finished")

\* =====================================================================
\*  Properties of all three queues
\* =====================================================================
\* a step of SPSCLockFreeQueue::dequeue
RingDequeueStep ==
  /\ c_pc' # c_pc
  /\ \/ c_pc \in {"deq_load_head", "deq_check_empty", "deq_read", "deq_store_head"}
     \/ c_pc' = "deq_load_head"

\* a step of LockedQueue::dequeue by thread t
LockedDequeueStep(t) ==
  /\ l_pc'[t] # l_pc[t]
  /\ l_op'[t] = "dequeue"
  /\ l_pc'[t] # "idle"

\* a step of DoubleBufferSPSC::dequeue
DBDequeueStep ==
  /\ dc_pc' # dc_pc
  /\ dc_pc' # "idle"

C12_RingReached ==
  /\ c_pc = "deq_return" /\ ~c_ret /\ head = tail
  /\ Len(deq_hist) >= 2 /\ c_item = deq_hist[Len(deq_hist)]
C12_LockedReached ==
  \E t \in Threads :
    /\ l_op[t] = "dequeue" /\ l_pc[t] = "unlock" /\ ~l_ret[t] /\ queue_ = <<>>
    /\ l_returned # <<>> /\ l_item[t] = l_returned[Len(l_returned)]

\* =====================================================================
\*  Properties of the instantiation of SPSCLockFreeQueue<T, Size>
\* =====================================================================
IsPowerOfTwo(S) == \E k \in 0 .. WordBits - 1 : S = 2 ^ k

\* C19: the static_assert accepts a Size exactly when Size is a power of
\* two: every Size that is not a power of two, 0 included, is rejected, and
\* every power of two, 1 included, is accepted.
C19_AcceptsExactlyPowersOfTwo ==
  tmpl_state # "pending" =>
    (tmpl_state = "accepted" <=> IsPowerOfTwo(tmpl_size))

\* what the static_assert does decide: every power of two is accepted, and
\* the only accepted Size that is not a power of two is 0
StaticAssertAcceptsPowersAndZero ==
  tmpl_state # "pending" =>
    (tmpl_state = "accepted" <=> (IsPowerOfTwo(tmpl_size) \/ tmpl_size = 0))

\* Size = 0 has passed the static_assert
ZeroSizeAccepted == tmpl_size = 0 /\ tmpl_state = "accepted"

====
